---- MODULE Spec2Model ----
(***************************************************************************)
(* Pyramid: ingestion, clock synchronisation and trial segmentation.       *)
(*                                                                         *)
(* Times are integers (ticks of a common unit); the code only adds,        *)
(* subtracts and compares times, so the integer model keeps every          *)
(* comparison the code makes.  Python's None is the empty tuple and an     *)
(* optional time t is the one-tuple <<t>>.  A NumericEventList is the      *)
(* sequence of its rows <<timestamp, value>>; a SignalChunk is the         *)
(* sequence of its samples with first_sample_time and sample_frequency.    *)
(***************************************************************************)
EXTENDS Integers, Sequences, FiniteSets, TLC

(* ------------------------------ bounds -------------------------------- *)
MaxTime == 3
MaxRecorded == 3
MaxAppends == 3

(* ------------------------- program constants -------------------------- *)
StartValue == 1010
WrtValue == 42
SyncValue == 43
OtherValue == 0
SampleFrequency == 1
EmptyReadsAllowed == 3
FilterMin == 10
FilterMax == 20
Offset == 42
Gain == -1
EventsSyncValue == 42

(* ------------------------- Python's None ------------------------------ *)
None == << >>
Some(t) == << t >>
IsNone(x) == x = << >>
Val(x) == x[1]

Abs(x) == IF x < 0 THEN -x ELSE x

(* Rows of seq whose position is selected by the boolean vector sel. *)
Mask(seq, sel) ==
    LET F[i \in 0..Len(seq)] ==
            IF i = 0 THEN << >>
            ELSE IF sel[i] THEN Append(F[i-1], seq[i]) ELSE F[i-1]
    IN F[Len(seq)]

(* --------------------- model/events.py: NumericEventList -------------- *)
NumericEventList(event_data) == [kind |-> "events", event_data |-> event_data]

(* get_time_selector with the end time taken as part of the range. *)
get_time_selector_through_end(self, start_time, end_time) ==
    [i \in 1..Len(self.event_data) |->
        /\ (IsNone(start_time) \/ self.event_data[i][1] >= Val(start_time))
        /\ (IsNone(end_time) \/ self.event_data[i][1] <= Val(end_time))]

get_time_selector(self, start_time, end_time) ==
    [i \in 1..Len(self.event_data) |->
        /\ (IsNone(start_time) \/ self.event_data[i][1] >= Val(start_time))
        /\ (IsNone(end_time) \/ self.event_data[i][1] < Val(end_time))]

(* get_times_of without the test of the event value. *)
get_times_of_any_value(self, event_value, start_time, end_time) ==
    LET rows_in_range == get_time_selector(self, start_time, end_time)
        rows == Mask(self.event_data, rows_in_range)
    IN [i \in 1..Len(rows) |-> rows[i][1]]

get_times_of(self, event_value, start_time, end_time) ==
    LET rows_in_range == get_time_selector(self, start_time, end_time)
        matching_rows == [i \in 1..Len(self.event_data) |-> self.event_data[i][2] = event_value]
        both == [i \in 1..Len(self.event_data) |-> rows_in_range[i] /\ matching_rows[i]]
        rows == Mask(self.event_data, both)
    IN [i \in 1..Len(rows) |-> rows[i][1]]

(* In place: the first value of every event becomes (value + offset) * gain, *)
(* and so does every sample of a signal chunk, sample_data[:, True] being    *)
(* every element of an array of any shape.  On an event array under one more *)
(* axis (kind "events3d") event_data[:, 1] is the second event, time and     *)
(* value; with fewer than two events there, index 1 is out of bounds and     *)
(* IndexError is raised, for which RaisedIndexError stands.                  *)
(* Events are rows of a time and one value. *)
RowWidth == 2

RaisedIndexError == [kind |-> "IndexError", event_data |-> << >>]

AxisOneBelowTwo(self) ==
    \/ self.kind = "events4d"
    \/ self.kind = "events3d" /\ Len(self.event_data[1]) < 2

apply_offset_then_gain(self, offset, gain) ==
    IF self.kind = "events"
    THEN NumericEventList([i \in 1..Len(self.event_data) |->
                              [self.event_data[i] EXCEPT ![2] = (@ + offset) * gain]])
    ELSE IF AxisOneBelowTwo(self)
    THEN RaisedIndexError
    ELSE IF self.kind = "events3d"
    THEN [self EXCEPT !.event_data[1][2] = [k \in 1..Len(@) |-> (@[k] + offset) * gain]]
    ELSE [self EXCEPT !.sample_data = [i \in 1..Len(self.sample_data) |->
                                          (self.sample_data[i] + offset) * gain]]

(* A new list of the events whose first value is in [min, max); with    *)
(* neither bound the selector is the scalar True, and indexing with it  *)
(* puts the whole array under one more axis (kind "events3d", and       *)
(* "events4d" for any more axes than that).  On an "events3d" list of   *)
(* two events event_data[:, 1] is the second event, and the selector    *)
(* made of its time and its value picks the first and the second event; *)
(* with any other number of events the index raises IndexError.        *)
copy_value_range(self, min, max) ==
    IF IsNone(min) /\ IsNone(max)
    THEN [kind |-> IF self.kind = "events" THEN "events3d" ELSE "events4d",
          event_data |-> <<self.event_data>>]
    ELSE IF AxisOneBelowTwo(self) \/ (self.kind = "events3d" /\ Len(self.event_data[1]) # RowWidth)
    THEN RaisedIndexError
    ELSE IF self.kind = "events3d"
    THEN NumericEventList(Mask(self.event_data[1],
            [k \in 1..Len(self.event_data[1]) |->
                /\ (IsNone(min) \/ self.event_data[1][2][k] >= Val(min))
                /\ (IsNone(max) \/ self.event_data[1][2][k] < Val(max))]))
    ELSE NumericEventList(Mask(self.event_data,
            [i \in 1..Len(self.event_data) |->
                /\ (IsNone(min) \/ self.event_data[i][2] >= Val(min))
                /\ (IsNone(max) \/ self.event_data[i][2] < Val(max))]))

(* --------------------- model/signals.py: SignalChunk ------------------ *)
(* A chunk of samples by one channel: sample_data has the shape (n, 1). *)
SignalChunk(sample_data, sample_frequency, first_sample_time) ==
    [kind |-> "signal", sample_data |-> sample_data,
     sample_frequency |-> sample_frequency, first_sample_time |-> first_sample_time]

(* A chunk whose sample_data has more axes than two: shape is the shape  *)
(* of the array and sample_data its elements in order.  Its              *)
(* first_sample_time is None or a number as before or, with              *)
(* first_sample_time_is_array, a numpy array of times.                   *)
SignalChunkND(shape, sample_data, sample_frequency, first_sample_time, first_sample_time_is_array) ==
    [kind |-> "signal_nd", shape |-> shape, sample_data |-> sample_data,
     sample_frequency |-> sample_frequency, first_sample_time |-> first_sample_time,
     first_sample_time_is_array |-> first_sample_time_is_array]

(* sample_data.shape and sample_data.size *)
shape(self) == IF self.kind = "signal" THEN <<Len(self.sample_data), 1>> ELSE self.shape

RECURSIVE Size(_)
Size(axes) == IF axes = << >> THEN 1 ELSE Head(axes) * Size(Tail(axes))

IsArray(first_sample_time_of) ==
    first_sample_time_of.kind = "signal_nd" /\ first_sample_time_of.first_sample_time_is_array

(* The chunk of an array of the given shape. *)
Chunk(axes, sample_data, sample_frequency, first_sample_time, first_sample_time_is_array) ==
    IF Len(axes) = 2 THEN SignalChunk(sample_data, sample_frequency, first_sample_time)
    ELSE SignalChunkND(axes, sample_data, sample_frequency, first_sample_time,
                       first_sample_time_is_array)

sample_count(self) == shape(self)[1]

(* Sample i (0-based) is at first_sample_time + i / sample_frequency; *)
(* sample_frequency, like first_sample_time, is a number or None.    *)
get_times(self) ==
    [i \in 1..Len(self.sample_data) |->
        Val(self.first_sample_time) + ((i - 1) \div Val(self.sample_frequency))]

(* get_times() of a chunk of any shape, with what numpy makes of the     *)
(* operands: there are sample_count() offsets, one per entry of the      *)
(* first axis; dividing or adding with None raises TypeError when there  *)
(* is an offset and gives an empty array when there is none; an array    *)
(* of first sample times is added to the offsets entry by entry when     *)
(* they are as many, one side is stretched when it has one entry, and    *)
(* else the addition raises ValueError.                                  *)
get_times_broadcast(self) ==
    LET count == sample_count(self)
        first == self.first_sample_time
        offset(i) == (i - 1) \div Val(self.sample_frequency)
    IN IF count > 0 /\ IsNone(self.sample_frequency) THEN [exc |-> "TypeError", value |-> << >>]
       ELSE IF ~IsArray(self)
       THEN IF IsNone(first)
            THEN [exc |-> IF count > 0 THEN "TypeError" ELSE "", value |-> << >>]
            ELSE [exc |-> "", value |-> [i \in 1..count |-> Val(first) + offset(i)]]
       ELSE IF Len(first) = count
       THEN [exc |-> "", value |-> [i \in 1..count |-> first[i] + offset(i)]]
       ELSE IF Len(first) = 1
       THEN [exc |-> "", value |-> [i \in 1..count |-> first[1] + offset(i)]]
       ELSE IF count = 1
       THEN [exc |-> "", value |-> [i \in 1..Len(first) |-> first[i] + offset(1)]]
       ELSE [exc |-> "ValueError", value |-> << >>]

(* sample_data[rows, :] for a boolean array rows as long as the first *)
(* axis: the entries of the first axis that rows selects, each of     *)
(* entry_size elements.                                               *)
MaskEntries(sample_data, entry_size, rows) ==
    LET F[i \in 0..Len(rows)] ==
            IF i = 0 THEN << >>
            ELSE IF rows[i]
            THEN F[i-1] \o SubSeq(sample_data, (i - 1) * entry_size + 1, i * entry_size)
            ELSE F[i-1]
    IN F[Len(rows)]

(* ------------- BufferData operations, by variant ---------------------- *)
copy(self) == self

(* What stands for the result of a call that raised TypeError or *)
(* ValueError instead.                                            *)
RaisedTypeError == [kind |-> "TypeError", sample_data |-> << >>, sample_frequency |-> None,
                    first_sample_time |-> None]

RaisedValueError == [kind |-> "ValueError", sample_data |-> << >>, sample_frequency |-> None,
                     first_sample_time |-> None]

Raised(exc) ==
    IF exc = "TypeError" THEN RaisedTypeError
    ELSE IF exc = "IndexError" THEN RaisedIndexError
    ELSE RaisedValueError

(* The exception a call raised, if any. *)
ExceptionOf(result) == IF result.kind \in {"TypeError", "IndexError", "ValueError"} THEN result.kind ELSE ""

(* With end_time == start_time the head selector is all False but for   *)
(* the first sample of the tail; with no sample in the tail the index   *)
(* of that sample is None and the assignment raises TypeError.  With    *)
(* neither bound both selectors are the scalar True: indexing with it   *)
(* puts the samples, and the sample times, under one more axis, so that *)
(* first_sample_time is the whole array of times.  With a bound the     *)
(* selector is an array as long as the sample times, and indexing the   *)
(* first axis with it raises IndexError when that axis is not as long.  *)
(* sample_times is what get_times() returned.                           *)
copy_sample_time_range(self, sample_times, start_time, end_time) ==
    IF IsNone(start_time) /\ IsNone(end_time)
    THEN SignalChunkND(<<1>> \o shape(self), self.sample_data, self.sample_frequency,
                       IF Size(shape(self)) > 0 THEN sample_times ELSE None,
                       Size(shape(self)) > 0)
    ELSE IF /\ ~IsNone(end_time) /\ end_time = start_time
            /\ \A i \in 1..Len(sample_times) : sample_times[i] < Val(start_time)
    THEN RaisedTypeError
    ELSE IF Len(sample_times) # sample_count(self)
    THEN RaisedIndexError
    ELSE LET n == Len(sample_times)
             tail_selector == [i \in 1..n |-> IsNone(start_time) \/ sample_times[i] >= Val(start_time)]
             first_tail == IF \E i \in 1..n : tail_selector[i]
                           THEN CHOOSE i \in 1..n : tail_selector[i] /\ \A j \in 1..(i-1) : ~tail_selector[j]
                           ELSE 0
             head_selector == [i \in 1..n |->
                                  IF IsNone(end_time) THEN TRUE
                                  ELSE IF end_time = start_time THEN i = first_tail
                                  ELSE sample_times[i] < Val(end_time)]
             rows_in_range == [i \in 1..n |-> tail_selector[i] /\ head_selector[i]]
             range_sample_data == MaskEntries(self.sample_data, Size(Tail(shape(self))), rows_in_range)
             range_times == Mask(sample_times, rows_in_range)
             range_first_sample_time == IF Len(range_sample_data) > 0 THEN Some(range_times[1]) ELSE None
         IN Chunk(<<Len(range_times)>> \o Tail(shape(self)), range_sample_data,
                  self.sample_frequency, range_first_sample_time, FALSE)

copy_time_range(self, start_time, end_time) ==
    IF self.kind = "events"
    THEN NumericEventList(Mask(self.event_data, get_time_selector(self, start_time, end_time)))
    ELSE CHOOSE range_chunk \in
             {IF times.exc # "" THEN Raised(times.exc)
              ELSE copy_sample_time_range(self, times.value, start_time, end_time) :
                 times \in {get_times_broadcast(self)}} : TRUE

(* np.concatenate raises ValueError unless the arrays have as many axes *)
(* and the same shape after the first; a first_sample_time of None is   *)
(* filled with that of the other chunk, array or not.                   *)
append(self, other) ==
    IF self.kind = "events"
    THEN NumericEventList(self.event_data \o other.event_data)
    ELSE IF Len(shape(self)) # Len(shape(other)) \/ Tail(shape(self)) # Tail(shape(other))
    THEN RaisedValueError
    ELSE LET fill == ~IsArray(self) /\ IsNone(self.first_sample_time)
         IN Chunk(<<sample_count(self) + sample_count(other)>> \o Tail(shape(self)),
                  self.sample_data \o other.sample_data,
                  IF IsNone(self.sample_frequency) THEN other.sample_frequency
                  ELSE self.sample_frequency,
                  IF fill THEN other.first_sample_time ELSE self.first_sample_time,
                  IF fill THEN IsArray(other) ELSE IsArray(self))

(* discard_before that leaves first_sample_time as it was. *)
discard_before_same_first_sample_time(self, start_time) ==
    IF self.kind = "events"
    THEN NumericEventList(SelectSeq(self.event_data, LAMBDA row : row[1] >= start_time))
    ELSE LET sample_times == get_times(self)
             rows_to_keep == [i \in 1..Len(self.sample_data) |-> sample_times[i] >= start_time]
         IN SignalChunk(Mask(self.sample_data, rows_to_keep), self.sample_frequency,
                        self.first_sample_time)

(* sample_times is what get_times() returned. *)
discard_samples_before(self, sample_times, start_time) ==
    IF Len(sample_times) # sample_count(self) THEN RaisedIndexError
    ELSE LET rows_to_keep == [i \in 1..Len(sample_times) |-> sample_times[i] >= start_time]
             kept == MaskEntries(self.sample_data, Size(Tail(shape(self))), rows_to_keep)
             kept_times == Mask(sample_times, rows_to_keep)
         IN Chunk(<<Len(kept_times)>> \o Tail(shape(self)), kept, self.sample_frequency,
                  IF Len(kept) > 0 THEN Some(kept_times[1]) ELSE None, FALSE)

discard_before(self, start_time) ==
    IF self.kind = "events"
    THEN NumericEventList(SelectSeq(self.event_data, LAMBDA row : row[1] >= start_time))
    ELSE CHOOSE kept_chunk \in
             {IF times.exc # "" THEN Raised(times.exc)
              ELSE discard_samples_before(self, times.value, start_time) :
                 times \in {get_times_broadcast(self)}} : TRUE

(* first_sample_time += shift, on every entry of an array. *)
shift_times(self, shift) ==
    IF self.kind = "events"
    THEN NumericEventList([i \in 1..Len(self.event_data) |->
                              <<self.event_data[i][1] + shift, self.event_data[i][2]>>])
    ELSE IF IsArray(self)
    THEN [self EXCEPT !.first_sample_time = [i \in 1..Len(@) |-> @[i] + shift]]
    ELSE [self EXCEPT !.first_sample_time = IF IsNone(@) THEN None ELSE Some(Val(@) + shift)]

SeqMax(s) == CHOOSE m \in {s[i] : i \in 1..Len(s)} : \A i \in 1..Len(s) : s[i] <= m
(* max() where min() was meant: the latest time. *)
SeqMin_latest(s) == CHOOSE m \in {s[i] : i \in 1..Len(s)} : \A i \in 1..Len(s) : s[i] <= m

SeqMin(s) == CHOOSE m \in {s[i] : i \in 1..Len(s)} : \A i \in 1..Len(s) : s[i] >= m

get_end_time(self) ==
    IF self.kind = "events"
    THEN IF Len(self.event_data) > 0
         THEN Some(SeqMax([i \in 1..Len(self.event_data) |-> self.event_data[i][1]]))
         ELSE None
    ELSE IF Len(self.sample_data) > 0
         THEN Some(Val(self.first_sample_time) + ((Len(self.sample_data) - 1) \div Val(self.sample_frequency)))
         ELSE None

(* --------------------- model/model.py: Buffer ------------------------- *)
Buffer(initial_data, initial_clock_drift) == [data |-> initial_data, clock_drift |-> initial_clock_drift]

raw_time_to_reference(self, raw_time) == raw_time - self.clock_drift

reference_time_to_raw(self, reference_time) ==
    IF IsNone(reference_time) THEN None ELSE Some(Val(reference_time) + self.clock_drift)

(* ------------- results of calls that may raise ------------------------ *)
Return(v) == [exc |-> "", value |-> v]
Raise(e) == [exc |-> e, value |-> 0]

(* min() without key=abs: the least element. *)
min_no_key(s) == CHOOSE m \in {s[i] : i \in 1..Len(s)} : \A i \in 1..Len(s) : m <= s[i]

(* Python's min(list, key=abs): the first element of least magnitude. *)
min_key_abs(s) ==
    LET F[i \in 1..Len(s)] ==
            IF i = 1 THEN s[1]
            ELSE IF Abs(s[i]) < Abs(F[i-1]) THEN s[i] ELSE F[i-1]
    IN F[Len(s)]

(* ------------- readers.py: configuration of the model's two readers --- *)
StartReader == "start_reader"
OtherReader == "other_reader"
Readers == {StartReader, OtherReader}
(* A reader of numeric events on its own, with transformers on its routes. *)
EventsReader == "test_reader"
(* A reader configured without sync. *)
PlainReader == "plain_reader"

(* standard_transformers.py.  A bound of FilterRange is None, a number, *)
(* or a value numpy cannot compare with numbers (min_type "str").       *)
OffsetThenGain(offset, gain) ==
    [class |-> "OffsetThenGain", offset |-> offset, gain |-> gain,
     min_type |-> "", min |-> None, max |-> None]
FilterRange(min_type, min, max) ==
    [class |-> "FilterRange", offset |-> 0, gain |-> 1,
     min_type |-> min_type, min |-> min, max |-> max]

ReaderRoute(reader_result_name, buffer_name, transformers) ==
    [reader_result_name |-> reader_result_name, buffer_name |-> buffer_name, transformers |-> transformers]

ReaderSyncConfig(is_reference, reader_result_name, event_value, reader_name) ==
    [is_reference |-> is_reference, reader_result_name |-> reader_result_name,
     event_value |-> event_value, reader_name |-> reader_name]

(* The start reader feeds the "start" buffer and is the sync reference;   *)
(* the other reader feeds "wrt", "foo" (events) and "sig" (a signal).     *)
(* The events reader deals its "events" result to "one" as it is, to      *)
(* "err" through a transformer that raises, to "two" through a filter and *)
(* an offset and gain, and to "absent", a buffer that does not exist; it  *)
(* has a route for "missing", a result it never returns, and one from     *)
(* "more" to "more".                                                      *)
routes(r) ==
    IF r = StartReader
    THEN << ReaderRoute("start", "start", << >>) >>
    ELSE IF r = OtherReader
    THEN << ReaderRoute("wrt", "wrt", << >>),
            ReaderRoute("foo", "foo", << >>),
            ReaderRoute("sig", "sig", << >>) >>
    ELSE IF r = PlainReader
    THEN << ReaderRoute("events", "plain", << >>) >>
    ELSE << ReaderRoute("events", "one", << >>),
            ReaderRoute("events", "err", << FilterRange("str", None, None) >>),
            ReaderRoute("events", "two", << FilterRange("float", Some(FilterMin), Some(FilterMax)),
                                            OffsetThenGain(Offset, Gain) >>),
            ReaderRoute("events", "absent", << >>),
            ReaderRoute("missing", "one", << >>),
            ReaderRoute("more", "more", << >>) >>

EventsBufferNames == {"one", "err", "two", "more"}

router_buffer_names(r) ==
    IF r = StartReader THEN {"start"}
    ELSE IF r = OtherReader THEN {"wrt", "foo", "sig"}
    ELSE IF r = PlainReader THEN {"plain"}
    ELSE EventsBufferNames
BufferNames == {"start", "wrt", "foo", "sig"}

sync_config(r) ==
    IF r = StartReader
    THEN ReaderSyncConfig(TRUE, "start", SyncValue, StartReader)
    ELSE IF r = OtherReader
    THEN ReaderSyncConfig(FALSE, "wrt", SyncValue, OtherReader)
    ELSE IF r = EventsReader
    THEN ReaderSyncConfig(TRUE, "events", EventsSyncValue, EventsReader)
    ELSE None

empty_reads_allowed(r) == EmptyReadsAllowed

(* ------------- readers.py: ReaderSyncRegistry -------------------------- *)
ReaderSyncRegistry(reference_reader_name) ==
    [reference_reader_name |-> reference_reader_name, event_times |-> [n \in Readers |-> << >>]]

record_event(self, reader_name, event_time) ==
    [self EXCEPT !.event_times[reader_name] = Append(@, event_time)]

(* get_drift pairing the latest events of the two sides by position. *)
get_drift_by_index(self, reader_name, reference_end_time, reader_end_time) ==
    LET recorded_reference == self.event_times[self.reference_reader_name]
        recorded_reader == self.event_times[reader_name]
    IN IF Len(recorded_reference) = 0 \/ Len(recorded_reader) = 0 THEN Return(0)
       ELSE Return(recorded_reader[Len(recorded_reader)] - recorded_reference[Len(recorded_reference)])

(* get_drift with the candidate from the reference compared first. *)
get_drift_reference_first(self, reader_name, reference_end_time, reader_end_time) ==
    LET recorded_reference == self.event_times[self.reference_reader_name]
        reference_event_times ==
            IF IsNone(reference_end_time) THEN recorded_reference
            ELSE SelectSeq(recorded_reference, LAMBDA time : time <= Val(reference_end_time))
        recorded_reader == self.event_times[reader_name]
        reader_event_times ==
            IF IsNone(reader_end_time) THEN recorded_reader
            ELSE SelectSeq(recorded_reader, LAMBDA time : time <= Val(reader_end_time))
    IN IF Len(recorded_reference) = 0 THEN Return(0)
       ELSE IF Len(recorded_reader) = 0 THEN Return(0)
       ELSE IF Len(reader_event_times) = 0 THEN Raise("IndexError")
       ELSE IF Len(reference_event_times) = 0 THEN Raise("ValueError")
       ELSE LET reader_last == reader_event_times[Len(reader_event_times)]
                reader_offsets == [i \in 1..Len(reference_event_times) |->
                                      reader_last - reference_event_times[i]]
                drift_from_reader == min_key_abs(reader_offsets)
                reference_last == reference_event_times[Len(reference_event_times)]
                reference_offsets == [i \in 1..Len(reader_event_times) |->
                                         reader_event_times[i] - reference_last]
                drift_from_reference == min_key_abs(reference_offsets)
            IN Return(min_key_abs(<<drift_from_reference, drift_from_reader>>))

get_drift(self, reader_name, reference_end_time, reader_end_time) ==
    LET recorded_reference == self.event_times[self.reference_reader_name]
        reference_event_times ==
            IF IsNone(reference_end_time) THEN recorded_reference
            ELSE SelectSeq(recorded_reference, LAMBDA time : time <= Val(reference_end_time))
        recorded_reader == self.event_times[reader_name]
        reader_event_times ==
            IF IsNone(reader_end_time) THEN recorded_reader
            ELSE SelectSeq(recorded_reader, LAMBDA time : time <= Val(reader_end_time))
    IN IF Len(recorded_reference) = 0 THEN Return(0)
       ELSE IF Len(recorded_reader) = 0 THEN Return(0)
       ELSE IF Len(reader_event_times) = 0 THEN Raise("IndexError")
       ELSE IF Len(reference_event_times) = 0 THEN Raise("ValueError")
       ELSE LET reader_last == reader_event_times[Len(reader_event_times)]
                reader_offsets == [i \in 1..Len(reference_event_times) |->
                                      reader_last - reference_event_times[i]]
                drift_from_reader == min_key_abs(reader_offsets)
                reference_last == reference_event_times[Len(reference_event_times)]
                reference_offsets == [i \in 1..Len(reader_event_times) |->
                                         reader_event_times[i] - reference_last]
                drift_from_reference == min_key_abs(reference_offsets)
            IN Return(min_key_abs(<<drift_from_reader, drift_from_reference>>))

(* ------------- readers.py: ReaderRouter -------------------------------- *)
(* What one read_next() call of a reader does: return None, return a      *)
(* mapping of result names to data, or raise.                             *)
ReadNone == [kind |-> "none", result |-> << >>]
ReadData(result) == [kind |-> "data", result |-> result]
ReadStop == [kind |-> "StopIteration", result |-> << >>]
ReadError == [kind |-> "Exception", result |-> << >>]

(* A Reader as a context manager: open while its resources are held.  *)
(* A DelaySimulatorReader wraps a reader and has start_time once it is *)
(* entered; open is then the state of the reader it wraps.             *)
Reader(simulate_delay) == [simulate_delay |-> simulate_delay, open |-> FALSE, started |-> FALSE]

(* __enter__; raises tells whether acquiring the resources fails. *)
reader_enter(self, raises) ==
    LET entering == [self EXCEPT !.started = @ \/ self.simulate_delay]
    IN IF raises THEN [exc |-> "Exception", self |-> entering]
       ELSE [exc |-> "", self |-> [entering EXCEPT !.open = TRUE]]

(* A DelaySimulatorReader whose __exit__ leaves the wrapped reader alone. *)
reader_exit_not_forwarded(self) ==
    IF self.simulate_delay THEN self ELSE [self EXCEPT !.open = FALSE]

(* __exit__ *)
reader_exit(self) == [self EXCEPT !.open = FALSE]

ReaderRouter == [reader |-> Reader(FALSE), reader_exception |-> "", max_buffer_time |-> 0,
                 clock_drift |-> 0]

still_going(self) == self.reader_exception = ""

(* The program state the routers, the delimiter and the extractor share. *)
World(rs, bs, reg) == [routers |-> rs, named_buffers |-> bs, sync_registry |-> reg]

RECURSIVE record_all(_, _, _)
record_all(registry, reader_name, times) ==
    IF times = << >> THEN registry
    ELSE record_all(record_event(registry, reader_name, Head(times)), reader_name, Tail(times))

(* transform without the comparison that raises on a bound of the wrong type. *)
transform_any_bound(transformer, data) ==
    IF transformer.class = "OffsetThenGain"
    THEN LET changed == apply_offset_then_gain(data, transformer.offset, transformer.gain)
         IN IF changed.kind = "IndexError" THEN Raise("IndexError") ELSE Return(changed)
    ELSE IF data.kind \in {"signal", "signal_nd"} \/ transformer.min_type = "str" THEN Return(data)
    ELSE LET filtered == copy_value_range(data, transformer.min, transformer.max)
         IN IF filtered.kind = "IndexError" THEN Raise("IndexError") ELSE Return(filtered)

(* Transformer.transform: OffsetThenGain changes the data it is given and *)
(* returns it; FilterRange returns a filtered copy of an event list, any  *)
(* other data as it is, and raises when numpy cannot compare with min, or *)
(* when the event list it is given has more axes than two and no second   *)
(* entry on axis 1.                                                       *)
transform(transformer, data) ==
    IF transformer.class = "OffsetThenGain"
    THEN LET changed == apply_offset_then_gain(data, transformer.offset, transformer.gain)
         IN IF changed.kind = "IndexError" THEN Raise("IndexError") ELSE Return(changed)
    ELSE IF data.kind \in {"signal", "signal_nd"} THEN Return(data)
    ELSE IF transformer.min_type = "str"
    THEN IF AxisOneBelowTwo(data) THEN Raise("IndexError") ELSE Raise("TypeError")
    ELSE LET filtered == copy_value_range(data, transformer.min, transformer.max)
         IN IF filtered.kind = "IndexError" THEN Raise("IndexError") ELSE Return(filtered)

(* The transformers of a route applied from the last to the first. *)
RECURSIVE transform_all_last_first(_, _)
transform_all_last_first(transformers, data) ==
    IF transformers = << >> THEN [exc |-> "", data |-> data]
    ELSE LET r == transform(transformers[Len(transformers)], data)
         IN IF r.exc # "" THEN [exc |-> r.exc, data |-> data]
            ELSE transform_all_last_first(SubSeq(transformers, 1, Len(transformers) - 1), r.value)

RECURSIVE transform_all(_, _)
transform_all(transformers, data) ==
    IF transformers = << >> THEN [exc |-> "", data |-> data]
    ELSE LET r == transform(Head(transformers), data)
         IN IF r.exc # "" THEN [exc |-> r.exc, data |-> data]
            ELSE transform_all(Tail(transformers), r.value)

(* numpy refuses to concatenate rows of different widths. *)
(* append raising only when the data are of another type. *)
append_raises_on_type_only(self, other) ==
    self.kind # other.kind

append_raises(self, other) ==
    \/ self.kind # other.kind
    \/ self.kind = "events" /\ \E i \in 1..Len(other.event_data) : Len(other.event_data[i]) # RowWidth

RECURSIVE route_all(_, _, _)
route_all(named_buffers, rts, read_result) ==
    IF rts = << >> THEN named_buffers
    ELSE LET route == Head(rts)
             rest == Tail(rts)
         IN IF route.buffer_name \notin DOMAIN named_buffers
            THEN route_all(named_buffers, rest, read_result)
            ELSE IF route.reader_result_name \notin DOMAIN read_result
            THEN route_all(named_buffers, rest, read_result)
            ELSE LET data_copy == copy(read_result[route.reader_result_name])
                     transformed == transform_all(route.transformers, data_copy)
                     buffer == named_buffers[route.buffer_name]
                 IN IF transformed.exc # ""
                    THEN route_all(named_buffers, rest, read_result)
                    ELSE IF append_raises(buffer.data, transformed.data)
                    THEN route_all(named_buffers, rest, read_result)
                    ELSE route_all([named_buffers EXCEPT ![route.buffer_name].data =
                                        append(@, transformed.data)],
                                   rest, read_result)

(* The greatest end time of the router's buffers, whatever the mark was. *)
high_water_mark_recomputed(max_buffer_time, named_buffers, names) ==
    LET ends == {Val(get_end_time(named_buffers[b].data)) :
                    b \in {n \in names : ~IsNone(get_end_time(named_buffers[n].data))}}
    IN IF ends = {} THEN 0
       ELSE CHOOSE m \in ends : \A e \in ends : e <= m

(* The loop over the router's buffers without its comparison with the   *)
(* mark: the mark becomes the end time of a buffer, however low.        *)
high_water_mark_unguarded(max_buffer_time, named_buffers, names) ==
    LET ends == {Val(get_end_time(named_buffers[b].data)) :
                    b \in {n \in names : ~IsNone(get_end_time(named_buffers[n].data))}}
        truthy == {e \in ends : e # 0}
    IN IF truthy = {} THEN max_buffer_time
       ELSE CHOOSE m \in truthy : \A e \in truthy : m <= e

(* The high water mark after a read: the loop over the router's buffers  *)
(* only ever raises it, and skips an end time of None or 0.              *)
high_water_mark(max_buffer_time, named_buffers, names) ==
    LET ends == {Val(get_end_time(named_buffers[b].data)) :
                    b \in {n \in names : ~IsNone(get_end_time(named_buffers[n].data))}}
        above == {e \in ends : e # 0 /\ e > max_buffer_time}
    IN IF above = {} THEN max_buffer_time
       ELSE CHOOSE m \in above : \A e \in above : e <= m

(* route_next once the reader returned a non-empty result: the sync events *)
(* of the result are recorded, every route deals its data, and the high    *)
(* water mark is raised.                                                   *)
route_result(w, r, read_result) ==
    LET self == w.routers[r]
        cfg == sync_config(r)
        sync_event_times ==
            IF r = PlainReader THEN << >>
            ELSE IF cfg.reader_result_name \in DOMAIN read_result
            THEN LET event_data == read_result[cfg.reader_result_name]
                 IN IF event_data.kind = "events"
                    THEN get_times_of(event_data, cfg.event_value, None, None)
                    ELSE << >>
            ELSE << >>
        registry == IF r = PlainReader THEN w.sync_registry
                    ELSE record_all(w.sync_registry, cfg.reader_name, sync_event_times)
        buffers == route_all(w.named_buffers, routes(r), read_result)
        max_buffer_time == high_water_mark(self.max_buffer_time, buffers, router_buffer_names(r))
    IN [w |-> [routers |-> [w.routers EXCEPT ![r].max_buffer_time = max_buffer_time],
               named_buffers |-> buffers,
               sync_registry |-> registry],
        ret |-> TRUE, called |-> TRUE]

(* route_next without the latch: a raising reader is asked again. *)
route_next_no_latch(w, r, read) ==
    LET self == w.routers[r]
    IN IF read.kind \in {"StopIteration", "Exception", "none"} \/ DOMAIN read.result = {}
       THEN [w |-> w, ret |-> FALSE, called |-> TRUE]
       ELSE [w |-> [w EXCEPT !.named_buffers = route_all(w.named_buffers, routes(r), read.result)],
             ret |-> TRUE, called |-> TRUE]

(* route_next taking only None for an empty read. *)
route_next_empty_mapping_is_data(w, r, read) ==
    LET self == w.routers[r]
    IN IF self.reader_exception # "" THEN [w |-> w, ret |-> FALSE, called |-> FALSE]
       ELSE IF read.kind \in {"StopIteration", "Exception"}
       THEN [w |-> [w EXCEPT !.routers[r].reader_exception = read.kind],
             ret |-> FALSE, called |-> TRUE]
       ELSE IF read.kind = "none"
       THEN [w |-> w, ret |-> FALSE, called |-> TRUE]
       ELSE route_result(w, r, read.result)

(* route_next returning whether the read changed a buffer. *)
route_next_true_when_routed(w, r, read) ==
    LET self == w.routers[r]
    IN IF self.reader_exception # "" THEN [w |-> w, ret |-> FALSE, called |-> FALSE]
       ELSE IF read.kind \in {"StopIteration", "Exception"}
       THEN [w |-> [w EXCEPT !.routers[r].reader_exception = read.kind],
             ret |-> FALSE, called |-> TRUE]
       ELSE IF read.kind = "none" \/ DOMAIN read.result = {}
       THEN [w |-> w, ret |-> FALSE, called |-> TRUE]
       ELSE [route_result(w, r, read.result) EXCEPT
                !.ret = route_result(w, r, read.result).w.named_buffers # w.named_buffers]

(* route_next that skips a disabled reader only when it has nothing more. *)
route_next_reads_when_disabled(w, r, read) ==
    IF w.routers[r].reader_exception # "" /\ read.kind = "none"
    THEN [w |-> w, ret |-> FALSE, called |-> FALSE]
    ELSE IF read.kind \in {"StopIteration", "Exception"}
    THEN [w |-> [w EXCEPT !.routers[r].reader_exception = read.kind],
          ret |-> FALSE, called |-> TRUE]
    ELSE IF read.kind = "none" \/ DOMAIN read.result = {}
    THEN [w |-> w, ret |-> FALSE, called |-> TRUE]
    ELSE route_result(w, r, read.result)

route_next(w, r, read) ==
    LET self == w.routers[r]
    IN IF self.reader_exception # "" THEN [w |-> w, ret |-> FALSE, called |-> FALSE]
       ELSE IF read.kind \in {"StopIteration", "Exception"}
       THEN [w |-> [w EXCEPT !.routers[r].reader_exception = read.kind],
             ret |-> FALSE, called |-> TRUE]
       ELSE IF read.kind = "none" \/ DOMAIN read.result = {}
       THEN [w |-> w, ret |-> FALSE, called |-> TRUE]
       ELSE route_result(w, r, read.result)

(* route_until reads until the high water mark reaches the target or too  *)
(* many reads in a row were empty.  reads is what the reader's coming     *)
(* read_next() calls do, one element per call made; used counts the calls *)
(* made, and finished is FALSE when the loop would go on beyond reads.    *)
(* The while condition of route_until, without its budget of empty reads. *)
route_until_continues_without_budget(w, r, target_reader_time, empty_reads) ==
    w.routers[r].max_buffer_time < target_reader_time

(* The while condition of route_until. *)
route_until_continues(w, r, target_reader_time, empty_reads) ==
    w.routers[r].max_buffer_time < target_reader_time /\ empty_reads <= empty_reads_allowed(r)

RECURSIVE route_until_loop(_, _, _, _, _, _)
route_until_loop(w, r, target_reader_time, empty_reads, reads, used) ==
    IF route_until_continues(w, r, target_reader_time, empty_reads)
    THEN IF still_going(w.routers[r]) /\ reads = << >>
         THEN [w |-> w, ret |-> w.routers[r].max_buffer_time, used |-> used, finished |-> FALSE]
         ELSE LET next_read == IF reads = << >> THEN ReadNone ELSE Head(reads)
                  got_data == route_next(w, r, next_read)
              IN route_until_loop(got_data.w, r, target_reader_time,
                                  IF got_data.ret THEN 0 ELSE empty_reads + 1,
                                  IF got_data.called THEN Tail(reads) ELSE reads,
                                  IF got_data.called THEN used + 1 ELSE used)
    ELSE [w |-> w, ret |-> w.routers[r].max_buffer_time, used |-> used, finished |-> TRUE]

(* route_until comparing the high water mark with the reference target. *)
route_until_unconverted(w, r, target_reference_time, reads) ==
    route_until_loop(w, r, target_reference_time, 0, reads, 0)

(* route_until starting its count of empty reads at 1. *)
route_until_counting_from_one(w, r, target_reference_time, reads) ==
    route_until_loop(w, r, target_reference_time + w.routers[r].clock_drift, 1, reads, 0)

route_until(w, r, target_reference_time, reads) ==
    route_until_loop(w, r, target_reference_time + w.routers[r].clock_drift, 0, reads, 0)

(* update_drift_estimate leaving the buffers' clock_drift as it was. *)
update_drift_estimate_router_only(w, r, reference_end_time) ==
    LET self == w.routers[r]
        reader_end_time == IF IsNone(reference_end_time) THEN None
                           ELSE Some(Val(reference_end_time) + self.clock_drift)
        drift == get_drift(w.sync_registry, sync_config(r).reader_name, reference_end_time, reader_end_time)
    IN IF r = PlainReader THEN [w |-> w, exc |-> "", ret |-> None]
       ELSE IF drift.exc # "" THEN [w |-> w, exc |-> drift.exc, ret |-> None]
       ELSE [w |-> [w EXCEPT !.routers[r].clock_drift = drift.value],
             exc |-> "", ret |-> Some(drift.value)]

(* ret is what the call returns: None without sync, else the drift. *)
update_drift_estimate(w, r, reference_end_time) ==
    LET self == w.routers[r]
        reader_end_time == IF IsNone(reference_end_time) THEN None
                           ELSE Some(Val(reference_end_time) + self.clock_drift)
        drift == get_drift(w.sync_registry, sync_config(r).reader_name, reference_end_time, reader_end_time)
    IN IF r = PlainReader THEN [w |-> w, exc |-> "", ret |-> None]
       ELSE IF drift.exc # "" THEN [w |-> w, exc |-> drift.exc, ret |-> None]
       ELSE [w |-> [w EXCEPT !.routers[r].clock_drift = drift.value,
                             !.named_buffers = [b \in DOMAIN w.named_buffers |->
                                                   IF b \in router_buffer_names(r)
                                                   THEN [w.named_buffers[b] EXCEPT !.clock_drift = drift.value]
                                                   ELSE w.named_buffers[b]]],
             exc |-> "", ret |-> Some(drift.value)]

(* ------------- trials.py: Trial ---------------------------------------- *)
Trial(start_time, end_time) ==
    [start_time |-> start_time, end_time |-> end_time, wrt_time |-> 0,
     numeric_events |-> << >>, signals |-> << >>,
     enhancements |-> << >>, enhancement_categories |-> << >>]

(* A Python dict as a function: d[key] = value. *)
Put(d, key, value) == [k \in DOMAIN d \cup {key} |-> IF k = key THEN value ELSE d[k]]

(* A Python value that is no BufferData carries its type as its kind: *)
(* None, a bool, an int, a float or a str.  A float is one of whole   *)
(* value, as the times are.                                           *)
PyNone == [kind |-> "NoneType", value |-> << >>]
PyBool(b) == [kind |-> "bool", value |-> b]
PyInt(n) == [kind |-> "int", value |-> n]
PyFloat(n) == [kind |-> "float", value |-> n]
PyStr(s) == [kind |-> "str", value |-> s]

(* isinstance(data, NumericEventList), isinstance(data, SignalChunk) *)
NumericEventListKinds == {"events", "events3d", "events4d"}
SignalChunkKinds == {"signal", "signal_nd"}

(* Any other data is not added. *)
add_buffer_data(self, name, data) ==
    IF data.kind \in NumericEventListKinds
    THEN [self EXCEPT !.numeric_events = Put(@, name, data)]
    ELSE IF data.kind \in SignalChunkKinds
    THEN [self EXCEPT !.signals = Put(@, name, data)]
    ELSE self

(* Data of a BufferData type is passed on to add_buffer_data and is no *)
(* enhancement.                                                        *)
add_enhancement(self, name, data, category) ==
    IF data.kind \in NumericEventListKinds \cup SignalChunkKinds
    THEN add_buffer_data(self, name, data)
    ELSE
    LET with_category == IF category \in DOMAIN self.enhancement_categories
                         THEN self.enhancement_categories
                         ELSE Put(self.enhancement_categories, category, << >>)
        names == with_category[category]
        with_name == IF \E i \in 1..Len(names) : names[i] = name
                     THEN with_category
                     ELSE Put(with_category, category, Append(names, name))
    IN [self EXCEPT !.enhancement_categories = with_name,
                    !.enhancements = Put(@, name, data)]

(* ------------- trials.py: TrialDelimiter ------------------------------- *)
TrialDelimiter(start_time, trial_count) == [start_time |-> start_time, trial_count |-> trial_count]

RECURSIVE next_loop(_, _, _, _)
next_loop(self, start_buffer, next_start_times, trials) ==
    IF next_start_times = << >> THEN [self |-> self, trials |-> trials]
    ELSE LET next_start_time == Head(next_start_times)
         IN IF next_start_time > self.start_time
            THEN next_loop(
                    [self EXCEPT !.start_time = next_start_time, !.trial_count = @ + 1],
                    start_buffer, Tail(next_start_times),
                    Append(trials,
                           [trial_number |-> self.trial_count,
                            trial |-> Trial(raw_time_to_reference(start_buffer, self.start_time),
                                            Some(raw_time_to_reference(start_buffer, next_start_time)))]))
            ELSE next_loop(self, start_buffer, Tail(next_start_times), trials)

(* next() returns the new trials in the order it made them. *)
next(self, start_buffer) ==
    next_loop(self, start_buffer, get_times_of(start_buffer.data, StartValue, None, None), << >>)

(* last() that forgets to count its trial. *)
last_uncounted(self, start_buffer) ==
    [self |-> self,
     trial_number |-> self.trial_count,
     trial |-> Trial(raw_time_to_reference(start_buffer, self.start_time), None)]

last(self, start_buffer) ==
    [self |-> [self EXCEPT !.trial_count = @ + 1],
     trial_number |-> self.trial_count,
     trial |-> Trial(raw_time_to_reference(start_buffer, self.start_time), None)]

delimiter_discard_before(start_buffer, reference_time) ==
    [start_buffer EXCEPT !.data =
        discard_before(@, Val(reference_time_to_raw(start_buffer, Some(reference_time))))]

(* ------------- trials.py: TrialExpression, enhancers ------------------- *)
(* An expression is held as compile() parsed it: a name, a constant, or  *)
(* two expressions under a binary or a comparison operator.              *)
Name(id) == [node |-> "Name", id |-> id, value |-> PyNone, args |-> << >>]
Constant(value) == [node |-> "Constant", id |-> "", value |-> value, args |-> << >>]
BinOp(left, op, right) == [node |-> "BinOp", id |-> op, value |-> PyNone, args |-> <<left, right>>]
Compare(left, op, right) == [node |-> "Compare", id |-> op, value |-> PyNone, args |-> <<left, right>>]

(* eval() is given {} for its globals and puts the dict of the builtins *)
(* module there as __builtins__: a name that is no enhancement is      *)
(* looked up in it.  These are its functions, its types (IOError and   *)
(* EnvironmentError are OSError itself) and its other objects.         *)
BuiltinFunctions ==
    {"__build_class__", "__import__", "abs", "aiter", "all", "anext", "any",
     "ascii", "bin", "breakpoint", "callable", "chr", "compile", "delattr",
     "dir", "divmod", "eval", "exec", "format", "getattr", "globals",
     "hasattr", "hash", "hex", "id", "input", "isinstance", "issubclass",
     "iter", "len", "locals", "max", "min", "next", "oct", "open", "ord",
     "pow", "print", "repr", "round", "setattr", "sorted", "sum", "vars"}

BuiltinTypes ==
    {"ArithmeticError", "AssertionError", "AttributeError", "BaseException",
     "BaseExceptionGroup", "BlockingIOError", "BrokenPipeError",
     "BufferError", "BytesWarning", "ChildProcessError",
     "ConnectionAbortedError", "ConnectionError", "ConnectionRefusedError",
     "ConnectionResetError", "DeprecationWarning", "EOFError",
     "EncodingWarning", "Exception", "ExceptionGroup", "FileExistsError",
     "FileNotFoundError", "FloatingPointError", "FutureWarning",
     "GeneratorExit", "ImportError", "ImportWarning", "IndentationError",
     "IndexError", "InterruptedError", "IsADirectoryError", "KeyError",
     "KeyboardInterrupt", "LookupError", "MemoryError",
     "ModuleNotFoundError", "NameError", "NotADirectoryError",
     "NotImplementedError", "OSError", "OverflowError",
     "PendingDeprecationWarning", "PermissionError", "ProcessLookupError",
     "RecursionError", "ReferenceError", "ResourceWarning", "RuntimeError",
     "RuntimeWarning", "StopAsyncIteration", "StopIteration", "SyntaxError",
     "SyntaxWarning", "SystemError", "SystemExit", "TabError",
     "TimeoutError", "TypeError", "UnboundLocalError", "UnicodeDecodeError",
     "UnicodeEncodeError", "UnicodeError", "UnicodeTranslateError",
     "UnicodeWarning", "UserWarning", "ValueError", "Warning",
     "ZeroDivisionError", "__loader__", "bool", "bytearray", "bytes",
     "classmethod", "complex", "dict", "enumerate", "filter", "float",
     "frozenset", "int", "list", "map", "memoryview", "object", "property",
     "range", "reversed", "set", "slice", "staticmethod", "str", "super",
     "tuple", "type", "zip"}

BuiltinObjects ==
    {"Ellipsis", "NotImplemented", "__spec__", "copyright", "credits",
     "exit", "help", "license", "quit"}

(* builtins.__doc__ *)
BuiltinsDoc ==
    "Built-in functions, types, exceptions, and other "
    \o "objects.\n\nThis module provides direct access to all "
    \o "'built-in'\nidentifiers of Python; for example, builtins.len"
    \o " is\nthe full name for the built-in function len().\n\nThis "
    \o "module is not normally accessed explicitly by "
    \o "most\napplications, but can be useful in modules that "
    \o "provide\nobjects with the same name as a built-in value, but"
    \o " in\nwhich the built-in of that name is also needed."

(* A builtin object is known by its name; the dict of the builtins is  *)
(* the one eval() put in the globals (original) or one made from it;   *)
(* X | Y of two types is a union, known by the set of its members'     *)
(* names, "None" for the type of None.                                 *)
PyBuiltin(name) == [kind |-> "builtin", value |-> name]
PyDict(original) == [kind |-> "dict", value |-> original]
PyUnion(members) == [kind |-> "union", value |-> members]

(* The keys of that dict. *)
BuiltinsKeys ==
    BuiltinFunctions \cup BuiltinTypes \cup BuiltinObjects
    \cup {"IOError", "EnvironmentError", "True", "False", "None", "__debug__",
          "__doc__", "__name__", "__package__"}

(* The value a name has in the globals and the builtins. *)
builtin(id) ==
    IF id \in {"True", "__debug__"} THEN PyBool(TRUE)
    ELSE IF id = "False" THEN PyBool(FALSE)
    ELSE IF id = "None" THEN PyNone
    ELSE IF id = "__name__" THEN PyStr("builtins")
    ELSE IF id = "__package__" THEN PyStr("")
    ELSE IF id = "__doc__" THEN PyStr(BuiltinsDoc)
    ELSE IF id \in {"IOError", "EnvironmentError"} THEN PyBuiltin("OSError")
    ELSE PyBuiltin(id)

(* What stands where the values here cannot tell the result: a quotient *)
(* or power that is not whole, a string made by % formatting, whether   *)
(* two equal floats, strings or large ints are one object.              *)
NoValue == CHOOSE v \in {} : TRUE

(* A bool counts as the int 1 or 0; the result of arithmetic on two    *)
(* numbers is a float when one of them is, else an int.                *)
IsInt(v) == v.kind \in {"int", "bool"}
IsNumber(v) == v.kind \in {"int", "float", "bool"}
NumberOf(v) == IF v.kind = "bool" THEN (IF v.value THEN 1 ELSE 0) ELSE v.value
PyNumber(a, b, n) == IF a.kind = "float" \/ b.kind = "float" THEN PyFloat(n) ELSE PyInt(n)

(* a & b of two integers, negative ones in two's complement. *)
RECURSIVE BitAnd(_, _)
BitAnd(a, b) ==
    IF a = 0 \/ b = 0 THEN 0
    ELSE IF a = -1 THEN b
    ELSE IF b = -1 THEN a
    ELSE (a % 2) * (b % 2) + 2 * BitAnd(a \div 2, b \div 2)

(* a >> n for a >= 0 and n >= 0 *)
RECURSIVE ShiftRight(_, _)
ShiftRight(a, n) == IF a = 0 \/ n = 0 THEN a ELSE ShiftRight(a \div 2, n - 1)

(* a ** n for n >= 0 *)
RECURSIVE Power(_, _)
Power(a, n) ==
    IF n = 0 THEN 1
    ELSE IF a \in {0, 1} THEN a
    ELSE LET half == Power(a, n \div 2)
         IN half * half * (IF n % 2 = 1 THEN a ELSE 1)

(* The code point of a character. *)
CharsFromSpace == " !\"#$%&'()*+,-./0123456789:;<=>?@ABCDEFGHIJKLMNOPQRSTUVWXYZ[\\]^_"
CharsFromA == "abcdefghijklmnopqrstuvwxyz{|}~"
IndexIn(chars, c) == CHOOSE i \in 1..Len(chars) : SubSeq(chars, i, i) = c
ord(c) ==
    IF c = "\t" THEN 9
    ELSE IF c = "\n" THEN 10
    ELSE IF \E i \in 1..Len(CharsFromSpace) : SubSeq(CharsFromSpace, i, i) = c
    THEN 31 + IndexIn(CharsFromSpace, c)
    ELSE 96 + IndexIn(CharsFromA, c)

(* Strings are ordered by the code points of their characters. *)
RECURSIVE StrLess(_, _)
StrLess(a, b) ==
    IF b = "" THEN FALSE
    ELSE IF a = "" THEN TRUE
    ELSE IF Head(a) = Head(b) THEN StrLess(Tail(a), Tail(b))
    ELSE ord(Head(a)) < ord(Head(b))

(* a in b of two strings *)
Contains(b, a) == \E i \in 0..(Len(b) - Len(a)) : SubSeq(b, i + 1, i + Len(a)) = a

(* a * n of a string *)
RECURSIVE Repeat(_, _)
Repeat(a, n) ==
    IF n <= 0 \/ a = "" THEN ""
    ELSE LET half == Repeat(a, n \div 2)
         IN half \o half \o (IF n % 2 = 1 THEN a ELSE "")

(* a == b *)
Equal(a, b) ==
    IF IsNumber(a) /\ IsNumber(b) THEN NumberOf(a) = NumberOf(b)
    ELSE IF a.kind # b.kind THEN FALSE
    ELSE IF a.kind = "dict" THEN TRUE
    ELSE a.value = b.value

(* The ints that CPython keeps one object of. *)
SmallInts == -5..256

(* a is b: a union or a dict that an operator made is a new object. *)
Identical(a, b) ==
    IF a.kind # b.kind THEN FALSE
    ELSE IF a.kind \in {"NoneType", "bool", "builtin"} THEN a.value = b.value
    ELSE IF a.kind = "dict" THEN a.value /\ b.value
    ELSE IF a.kind = "union" THEN FALSE
    ELSE IF a.value # b.value THEN FALSE
    ELSE IF a.kind = "int" /\ a.value \in SmallInts THEN TRUE
    ELSE NoValue

(* X | Y is defined for types, None and unions, not for None | None. *)
IsType(v) == v.kind = "builtin" /\ v.value \in BuiltinTypes
IsUnionable(v) == IsType(v) \/ v.kind \in {"union", "NoneType"}
Members(v) ==
    IF v.kind = "union" THEN v.value
    ELSE IF v.kind = "NoneType" THEN {"None"}
    ELSE {v.value}

(* PyMapping_Check(v) *)
IsMapping(v) == v.kind \in {"dict", "union"}

(* hash(v) raises TypeError. *)
IsUnhashable(v) == v.kind = "dict" \/ v = PyBuiltin("__spec__")

(* Python's binary and comparison operators on two values.  Numbers are *)
(* whole here, so a / b and a ** b have a value when the result is      *)
(* whole.                                                               *)
binary_op(op, a, b) ==
    IF op = "+"
    THEN IF IsNumber(a) /\ IsNumber(b) THEN Return(PyNumber(a, b, NumberOf(a) + NumberOf(b)))
         ELSE IF a.kind = "str" /\ b.kind = "str" THEN Return(PyStr(a.value \o b.value))
         ELSE Raise("TypeError")
    ELSE IF op = "-"
    THEN IF IsNumber(a) /\ IsNumber(b) THEN Return(PyNumber(a, b, NumberOf(a) - NumberOf(b)))
         ELSE Raise("TypeError")
    ELSE IF op = "*"
    THEN IF IsNumber(a) /\ IsNumber(b) THEN Return(PyNumber(a, b, NumberOf(a) * NumberOf(b)))
         ELSE IF a.kind = "str" /\ IsInt(b) THEN Return(PyStr(Repeat(a.value, NumberOf(b))))
         ELSE IF IsInt(a) /\ b.kind = "str" THEN Return(PyStr(Repeat(b.value, NumberOf(a))))
         ELSE Raise("TypeError")
    ELSE IF op = "/"
    THEN IF ~(IsNumber(a) /\ IsNumber(b)) THEN Raise("TypeError")
         ELSE IF NumberOf(b) = 0 THEN Raise("ZeroDivisionError")
         ELSE IF (NumberOf(a) \div NumberOf(b)) * NumberOf(b) = NumberOf(a)
         THEN Return(PyFloat(NumberOf(a) \div NumberOf(b)))
         ELSE NoValue
    ELSE IF op = "//"
    THEN IF ~(IsNumber(a) /\ IsNumber(b)) THEN Raise("TypeError")
         ELSE IF NumberOf(b) = 0 THEN Raise("ZeroDivisionError")
         ELSE Return(PyNumber(a, b, NumberOf(a) \div NumberOf(b)))
    ELSE IF op = "%"
    THEN IF a.kind = "str"
         THEN IF Contains(a.value, "%") THEN NoValue
              ELSE IF IsMapping(b) THEN Return(a)
              ELSE Raise("TypeError")
         ELSE IF ~(IsNumber(a) /\ IsNumber(b)) THEN Raise("TypeError")
         ELSE IF NumberOf(b) = 0 THEN Raise("ZeroDivisionError")
         ELSE Return(PyNumber(a, b, NumberOf(a) - NumberOf(b) * (NumberOf(a) \div NumberOf(b))))
    ELSE IF op = "**"
    THEN IF ~(IsNumber(a) /\ IsNumber(b)) THEN Raise("TypeError")
         ELSE IF NumberOf(b) >= 0 THEN Return(PyNumber(a, b, Power(NumberOf(a), NumberOf(b))))
         ELSE IF NumberOf(a) = 0 THEN Raise("ZeroDivisionError")
         ELSE IF NumberOf(a) \in {1, -1} THEN Return(PyFloat(Power(NumberOf(a), -NumberOf(b))))
         ELSE NoValue
    ELSE IF op \in {"<<", ">>"}
    THEN IF ~(IsInt(a) /\ IsInt(b)) THEN Raise("TypeError")
         ELSE IF NumberOf(b) < 0 THEN Raise("ValueError")
         ELSE IF NumberOf(a) \in {0, -1} /\ op = ">>" THEN Return(PyInt(NumberOf(a)))
         ELSE IF NumberOf(a) = 0 THEN Return(PyInt(0))
         ELSE IF op = "<<" THEN Return(PyInt(NumberOf(a) * Power(2, NumberOf(b))))
         ELSE Return(PyInt(IF NumberOf(a) >= 0 THEN ShiftRight(NumberOf(a), NumberOf(b))
                           ELSE -1 - ShiftRight(-1 - NumberOf(a), NumberOf(b))))
    ELSE IF op \in {"&", "|", "^"}
    THEN IF IsInt(a) /\ IsInt(b)
         THEN LET x == NumberOf(a)
                  y == NumberOf(b)
                  bits == IF op = "&" THEN BitAnd(x, y)
                          ELSE IF op = "|" THEN x + y - BitAnd(x, y)
                          ELSE x + y - 2 * BitAnd(x, y)
              IN IF a.kind = "bool" /\ b.kind = "bool" THEN Return(PyBool(bits = 1))
                 ELSE Return(PyInt(bits))
         ELSE IF op # "|" THEN Raise("TypeError")
         ELSE IF a.kind = "dict" /\ b.kind = "dict" THEN Return(PyDict(FALSE))
         ELSE IF IsUnionable(a) /\ IsUnionable(b) /\ ~(a.kind = "NoneType" /\ b.kind = "NoneType")
         THEN IF Members(a) = Members(b) /\ a.kind = "builtin" THEN Return(a)
              ELSE Return(PyUnion(Members(a) \cup Members(b)))
         ELSE Raise("TypeError")
    ELSE IF op = "@" THEN Raise("TypeError")
    ELSE IF op \in {"==", "!="}
    THEN Return(PyBool(IF op = "==" THEN Equal(a, b) ELSE ~Equal(a, b)))
    ELSE IF op \in {"is", "is not"}
    THEN Return(PyBool(IF op = "is" THEN Identical(a, b) ELSE ~Identical(a, b)))
    ELSE IF op \in {"in", "not in"}
    THEN IF b.kind = "str"
         THEN IF a.kind # "str" THEN Raise("TypeError")
              ELSE Return(PyBool(IF op = "in" THEN Contains(b.value, a.value)
                                 ELSE ~Contains(b.value, a.value)))
         ELSE IF b.kind = "dict"
         THEN IF IsUnhashable(a) THEN Raise("TypeError")
              ELSE LET found == IF a.kind = "str" THEN a.value \in BuiltinsKeys ELSE FALSE
                   IN Return(PyBool(IF op = "in" THEN found ELSE ~found))
         ELSE Raise("TypeError")
    ELSE IF op \in {"<", "<=", ">", ">="}
    THEN IF IsNumber(a) /\ IsNumber(b)
         THEN Return(PyBool(IF op = ">" THEN NumberOf(a) > NumberOf(b)
                            ELSE IF op = ">=" THEN NumberOf(a) >= NumberOf(b)
                            ELSE IF op = "<" THEN NumberOf(a) < NumberOf(b)
                            ELSE NumberOf(a) <= NumberOf(b)))
         ELSE IF a.kind = "str" /\ b.kind = "str"
         THEN Return(PyBool(IF op = ">" THEN StrLess(b.value, a.value)
                            ELSE IF op = ">=" THEN ~StrLess(a.value, b.value)
                            ELSE IF op = "<" THEN StrLess(a.value, b.value)
                            ELSE ~StrLess(b.value, a.value)))
         ELSE Raise("TypeError")
    ELSE NoValue

(* eval(compiled_expression, {}, locals): a name is looked up in the   *)
(* locals, then in the globals, which hold __builtins__ only, then in  *)
(* the builtins, and raises NameError when it is in none of them; the  *)
(* left operand is evaluated first.                                    *)
RECURSIVE eval(_, _)
eval(expression, locals) ==
    IF expression.node = "Name"
    THEN IF expression.id \in DOMAIN locals THEN Return(locals[expression.id])
         ELSE IF expression.id = "__builtins__" THEN Return(PyDict(TRUE))
         ELSE IF expression.id \in BuiltinsKeys THEN Return(builtin(expression.id))
         ELSE Raise("NameError")
    ELSE IF expression.node = "Constant" THEN Return(expression.value)
    ELSE LET left == eval(expression.args[1], locals)
         IN IF left.exc # "" THEN left
            ELSE LET right == eval(expression.args[2], locals)
                 IN IF right.exc # "" THEN right
                    ELSE binary_op(expression.id, left.value, right.value)

(* The truth value of a Python value: not when_result. *)
bool(v) ==
    IF v.kind = "NoneType" THEN FALSE
    ELSE IF v.kind = "bool" THEN v.value
    ELSE IF v.kind \in {"int", "float"} THEN v.value # 0
    ELSE IF v.kind = "str" THEN v.value # ""
    ELSE TRUE

TrialExpression(expression, default_value) ==
    [compiled_expression |-> expression, default_value |-> default_value]
(* An enhancer's when expression is None or a TrialExpression. *)
NoExpression == None

(* A gate whose evaluation error lets the enhancer run. *)
evaluate_error_passes(self, trial) ==
    LET result == eval(self.compiled_expression, trial.enhancements)
    IN IF result.exc # "" THEN PyBool(TRUE) ELSE result.value

(* Any error of the evaluation returns the default value. *)
evaluate(self, trial) ==
    LET result == eval(self.compiled_expression, trial.enhancements)
    IN IF result.exc # "" THEN self.default_value ELSE result.value

(* The enhancers of the tests: TrialDurationEnhancer, BadEnhancer,       *)
(* DurationPlusTrialNumber and ExtraEnhancer.                            *)
enhance(enhancer, trial, trial_number) ==
    IF enhancer = "TrialDurationEnhancer"
    THEN [exc |-> "", trial |-> add_enhancement(trial, "duration",
                                    IF IsNone(trial.end_time) THEN PyNone
                                    ELSE PyFloat(Val(trial.end_time) - trial.start_time), "value")]
    ELSE IF enhancer = "DurationPlusTrialNumber"
    THEN LET duration == IF "duration" \in DOMAIN trial.enhancements
                         THEN trial.enhancements["duration"] ELSE PyNone
         IN [exc |-> "", trial |-> add_enhancement(trial, "duration_plus_trial_number",
                                       IF duration = PyNone THEN PyNone
                                       ELSE PyFloat(duration.value + trial_number), "value")]
    ELSE IF enhancer = "ExtraEnhancer"
    THEN [exc |-> "", trial |-> add_enhancement(trial, "extra", PyBool(TRUE), "value")]
    ELSE [exc |-> "RuntimeError", trial |-> trial]

(* ------------- trials.py: TrialExtractor -------------------------------- *)
(* Buffer data shifted by the wrt time without the buffer's drift. *)
RECURSIVE populate_buffers_unconverted(_, _, _)
populate_buffers_unconverted(trial, named_buffers, names) ==
    IF names = << >> THEN trial
    ELSE LET name == Head(names)
             buffer == named_buffers[name]
             data == copy_time_range(buffer.data,
                                     reference_time_to_raw(buffer, Some(trial.start_time)),
                                     reference_time_to_raw(buffer, trial.end_time))
         IN populate_buffers_unconverted(
                add_buffer_data(trial, name, shift_times(data, -trial.wrt_time)),
                named_buffers, Tail(names))

RECURSIVE populate_buffers(_, _, _)
populate_buffers(trial, named_buffers, names) ==
    IF names = << >> THEN trial
    ELSE LET name == Head(names)
             buffer == named_buffers[name]
             data == copy_time_range(buffer.data,
                                     reference_time_to_raw(buffer, Some(trial.start_time)),
                                     reference_time_to_raw(buffer, trial.end_time))
             raw_wrt_time == Val(reference_time_to_raw(buffer, Some(trial.wrt_time)))
         IN populate_buffers(add_buffer_data(trial, name, shift_times(data, -raw_wrt_time)),
                             named_buffers, Tail(names))

(* Enhancers without the try/except: the first one to raise ends the loop. *)
RECURSIVE populate_enhancers_uncaught(_, _, _, _)
populate_enhancers_uncaught(trial, trial_number, enhancers, log) ==
    IF enhancers = << >> THEN [trial |-> trial, log |-> log]
    ELSE LET enhancer == Head(enhancers).enhancer
             when_expression == Head(enhancers).when
         IN IF (IF when_expression = None THEN FALSE
                ELSE ~bool(evaluate(Val(when_expression), trial)))
            THEN populate_enhancers_uncaught(trial, trial_number, Tail(enhancers),
                                             Append(log, "skipped"))
            ELSE LET enhanced == enhance(enhancer, trial, trial_number)
                 IN IF enhanced.exc # ""
                    THEN [trial |-> enhanced.trial, log |-> Append(log, "raised")]
                    ELSE populate_enhancers_uncaught(enhanced.trial, trial_number, Tail(enhancers),
                                                     Append(log, "enhanced"))

(* log is, for each enhancer in turn, what became of it. *)
RECURSIVE populate_enhancers(_, _, _, _)
populate_enhancers(trial, trial_number, enhancers, log) ==
    IF enhancers = << >> THEN [trial |-> trial, log |-> log]
    ELSE LET enhancer == Head(enhancers).enhancer
             when_expression == Head(enhancers).when
         IN IF (IF when_expression = None THEN FALSE
                ELSE ~bool(evaluate(Val(when_expression), trial)))
            THEN populate_enhancers(trial, trial_number, Tail(enhancers), Append(log, "skipped"))
            ELSE LET enhanced == enhance(enhancer, trial, trial_number)
                 IN IF enhanced.exc # ""
                    THEN populate_enhancers(enhanced.trial, trial_number, Tail(enhancers),
                                            Append(log, "raised"))
                    ELSE populate_enhancers(enhanced.trial, trial_number, Tail(enhancers),
                                            Append(log, "enhanced"))

ExtractorBufferNames == << "foo", "sig" >>

populate_trial(trial, trial_number, named_buffers, enhancers) ==
    LET wrt_buffer == named_buffers["wrt"]
        trial_wrt_times == get_times_of(wrt_buffer.data, WrtValue,
                                        reference_time_to_raw(wrt_buffer, Some(trial.start_time)),
                                        reference_time_to_raw(wrt_buffer, trial.end_time))
        with_wrt == [trial EXCEPT !.wrt_time =
                        IF Len(trial_wrt_times) > 0
                        THEN raw_time_to_reference(wrt_buffer, SeqMin(trial_wrt_times))
                        ELSE 0]
        with_data == populate_buffers(with_wrt, named_buffers, ExtractorBufferNames)
    IN populate_enhancers(with_data, trial_number, enhancers, << >>)

(* discard_before with the reference time taken as each buffer's raw time. *)
extractor_discard_before_unconverted(named_buffers, reference_time) ==
    [b \in DOMAIN named_buffers |->
        IF b = "wrt" \/ \E i \in 1..Len(ExtractorBufferNames) : ExtractorBufferNames[i] = b
        THEN [named_buffers[b] EXCEPT !.data = discard_before(@, reference_time)]
        ELSE named_buffers[b]]

extractor_discard_before(named_buffers, reference_time) ==
    [b \in DOMAIN named_buffers |->
        IF b = "wrt" \/ \E i \in 1..Len(ExtractorBufferNames) : ExtractorBufferNames[i] = b
        THEN [named_buffers[b] EXCEPT !.data =
                 discard_before(@, Val(reference_time_to_raw(named_buffers[b], Some(reference_time))))]
        ELSE named_buffers[b]]

(* ======================= the state of the program ===================== *)
VARIABLES
    routers,          \* reader name -> ReaderRouter fields
    named_buffers,    \* buffer name -> Buffer
    sync_registry,    \* the ReaderSyncRegistry
    trial_delimiter,  \* the TrialDelimiter's start_time and trial_count
    new_trials,       \* trials made by next() or last() and not yet populated
    trial,            \* the trial populate_trial filled in last, with its number and log
    writer,           \* the trials handed to the sink, in order
    pc,               \* where the driving loop is
    call,             \* the operation that ran last, with its inputs and what it returned
    reads,            \* read_next() calls made so far, per reader
    route_until_frame, \* the locals of the route_until call in progress, if any
    stack,            \* the context managers the run's ExitStack has entered, in order
    heap              \* BufferData objects and the arrays and lists they refer to

vars == <<routers, named_buffers, sync_registry, trial_delimiter, new_trials, trial,
          writer, pc, call, reads, route_until_frame, stack, heap>>

world == World(routers, named_buffers, sync_registry)

SetWorld(w) ==
    /\ routers' = w.routers
    /\ named_buffers' = w.named_buffers
    /\ sync_registry' = w.sync_registry

(* get_initial(): the empty data each buffer starts with. *)
InitialBuffers ==
    [b \in BufferNames |->
        IF b = "sig" THEN Buffer(SignalChunk(<< >>, Some(SampleFrequency), None), 0)
        ELSE Buffer(NumericEventList(<< >>), 0)]

(* No objects are followed. *)
NoHeap == [arrays |-> << >>, objects |-> << >>, ops |-> 0]

NoCall == [op |-> "", router |-> "", read |-> "", ret |-> FALSE, time |-> 0, exc |-> "",
           reference_end_time |-> None, reader_end_time |-> None, script |-> << >>,
           empty_run |-> 0, returned |-> None, name |-> "", category |-> "", data |-> None,
           object |-> 0, others |-> {}]
(* No route_until call is in progress. *)
NoFrame == [router |-> "", target_reader_time |-> 0, empty_reads |-> 0]

NoTrial == [trial_number |-> -1, trial |-> Trial(0, None), log |-> << >>, enhancers |-> << >>]

InitProgram ==
    /\ routers = [r \in Readers |-> ReaderRouter]
    /\ named_buffers = InitialBuffers
    /\ sync_registry = ReaderSyncRegistry(StartReader)
    /\ trial_delimiter = TrialDelimiter(0, 0)
    /\ new_trials = << >>
    /\ trial = NoTrial
    /\ writer = << >>
    /\ pc = "loop"
    /\ call = NoCall
    /\ reads = [r \in Readers |-> 0]
    /\ route_until_frame = NoFrame
    /\ stack = << >>
    /\ heap = NoHeap

(* ------------- what the readers of the model can return --------------- *)
Times == 0..MaxTime

Rows(values) == {<<t, v>> : t \in Times, v \in values}

StartResults == {[n \in {"start"} |-> NumericEventList(<<row>>)] : row \in Rows({StartValue, SyncValue})}

OtherResults ==
    {[n \in {"wrt"} |-> NumericEventList(<<row>>)] : row \in Rows({WrtValue, SyncValue})}
    \cup {[n \in {"foo"} |-> NumericEventList(<<row>>)] : row \in Rows({OtherValue})}
    \cup {[n \in {"sig"} |-> SignalChunk(<<7, 8>>, Some(SampleFrequency), Some(t))] : t \in Times}
    \cup {[n \in {"wrt", "foo"} |->
              IF n = "wrt" THEN NumericEventList(<<<<t, WrtValue>>>>)
              ELSE NumericEventList(<<<<t, OtherValue>>>>)] : t \in Times}

Results(r) == IF r = StartReader THEN StartResults ELSE OtherResults

ReadOutcomes(r) == {ReadNone, ReadStop, ReadError, ReadData(<< >>)} \cup {ReadData(res) : res \in Results(r)}

(* ======================= the router on its own ======================== *)
MaxCalls == 3

RouteNext(r, read) ==
    /\ reads[StartReader] + reads[OtherReader] < MaxCalls
    /\ LET res == route_next(world, r, read)
       IN /\ SetWorld(res.w)
          /\ call' = [NoCall EXCEPT !.op = "route_next", !.router = r,
                                    !.read = IF res.called THEN read.kind ELSE "",
                                    !.ret = res.ret]
          /\ reads' = [reads EXCEPT ![r] = @ + 1]
    /\ UNCHANGED <<heap, stack, route_until_frame, trial_delimiter, new_trials, trial, writer, pc>>

NextRouter == \E r \in Readers : \E read \in ReadOutcomes(r) : RouteNext(r, read)

SpecRouter == InitProgram /\ [][NextRouter]_vars

(* C1: when the reader raises from read_next, that route_next call returns *)
(* False and latches the router as disabled; every later route_next call   *)
(* on it returns False too, and no such call changes any buffer.           *)
C1_CircuitBreaker ==
    [][\A r \in Readers :
        /\ (call'.op = "route_next" /\ call'.router = r
                /\ call'.read \in {"StopIteration", "Exception"})
            => (~call'.ret /\ ~still_going(routers'[r]) /\ named_buffers' = named_buffers)
        /\ ~still_going(routers[r])
            => /\ ~still_going(routers'[r])
               /\ (call'.op = "route_next" /\ call'.router = r)
                    => (~call'.ret /\ named_buffers' = named_buffers)]_vars

(* A router that read data, was disabled by its reader, and was asked again. *)
C1_Witness ==
    \E r \in Readers :
        /\ ~still_going(routers[r])
        /\ call.op = "route_next" /\ call.router = r /\ call.read = "" /\ ~call.ret
        /\ reads[r] = 3
        /\ \E b \in router_buffer_names(r) : get_end_time(named_buffers[b].data) # None

(* ======================= the sync registry on its own ================= *)
OptTimes == {None} \cup {Some(t) : t \in Times}

RecordEvent(reader_name, event_time) ==
    /\ Len(sync_registry.event_times[StartReader]) + Len(sync_registry.event_times[OtherReader])
           < MaxRecorded
    /\ sync_registry' = record_event(sync_registry, reader_name, event_time)
    /\ call' = [NoCall EXCEPT !.op = "record_event", !.router = reader_name, !.time = event_time]
    /\ UNCHANGED <<heap, stack, route_until_frame, routers, named_buffers, trial_delimiter, new_trials, trial, writer, pc, reads>>

GetDrift(reader_name, reference_end_time, reader_end_time) ==
    /\ call.op # "get_drift"
    /\ LET drift == get_drift(sync_registry, reader_name, reference_end_time, reader_end_time)
       IN call' = [NoCall EXCEPT !.op = "get_drift", !.router = reader_name,
                                 !.reference_end_time = reference_end_time,
                                 !.reader_end_time = reader_end_time,
                                 !.time = drift.value, !.exc = drift.exc]
    /\ UNCHANGED <<heap, stack, route_until_frame, routers, named_buffers, sync_registry, trial_delimiter, new_trials, trial,
                   writer, pc, reads>>

NextSync ==
    \/ \E n \in Readers : \E t \in Times : RecordEvent(n, t)
    \/ \E n \in Readers : \E e1 \in OptTimes : \E e2 \in OptTimes : GetDrift(n, e1, e2)

SpecSync == InitProgram /\ [][NextSync]_vars

(* The events of a reader that qualify: recorded at or before the end time. *)
Qualifying(reader_name, end_time) ==
    SelectSeq(sync_registry.event_times[reader_name],
              LAMBDA t : IsNone(end_time) \/ t <= Val(end_time))

(* The members of a set of offsets that are nearest to zero. *)
Nearest(offsets) == {d \in offsets : \A e \in offsets : Abs(d) <= Abs(e)}

(* C9: when the reference and the named reader both have qualifying events,  *)
(* get_drift returns the candidate of smaller magnitude among (a) the offset  *)
(* of the reader's latest event from the reference event nearest to it and    *)
(* (b) the offset from the reference's latest event of the reader event       *)
(* nearest to it.                                                             *)
C9_DriftIsNearestOfTwo ==
    (call.op = "get_drift"
        /\ Len(Qualifying(StartReader, call.reference_end_time)) > 0
        /\ Len(Qualifying(call.router, call.reader_end_time)) > 0)
    => LET reference == Qualifying(StartReader, call.reference_end_time)
           reader == Qualifying(call.router, call.reader_end_time)
           reader_last == reader[Len(reader)]
           reference_last == reference[Len(reference)]
           from_reader == Nearest({reader_last - reference[i] : i \in 1..Len(reference)})
           from_reference == Nearest({reader[i] - reference_last : i \in 1..Len(reader)})
       IN /\ call.exc = ""
          /\ \E a \in from_reader : \E b \in from_reference :
                /\ call.time \in {a, b}
                /\ Abs(call.time) <= Abs(a)
                /\ Abs(call.time) <= Abs(b)

(* get_drift chose between two candidates of different magnitude and sign. *)
C9_Witness ==
    /\ call.op = "get_drift" /\ call.router = OtherReader /\ call.exc = ""
    /\ Len(Qualifying(StartReader, call.reference_end_time)) = 2
    /\ Len(Qualifying(OtherReader, call.reader_end_time)) = 1
    /\ call.time < 0
    /\ LET reference == Qualifying(StartReader, call.reference_end_time)
           reader == Qualifying(OtherReader, call.reader_end_time)
       IN Abs(reader[1] - reference[2]) > Abs(call.time)

(* C10: get_drift returns 0.0 whenever the reference or the named reader has *)
(* no qualifying event, whether none was recorded or none is left after      *)
(* truncation to the end time.                                               *)
C10_ZeroWithoutQualifyingEvents ==
    (call.op = "get_drift"
        /\ (Len(Qualifying(StartReader, call.reference_end_time)) = 0
            \/ Len(Qualifying(call.router, call.reader_end_time)) = 0))
    => (call.exc = "" /\ call.time = 0)

(* ======================= the delimiter on its own ===================== *)
MaxDrift == 1
Drifts == {-MaxDrift, 0, MaxDrift}

(* Buffers may start with a drift: Buffer(initial_data, initial_clock_drift); *)
(* the buffers of one router share the router's drift.                        *)
InitDrifted ==
    /\ \E ds \in Drifts : \E do \in Drifts :
          /\ routers = [r \in Readers |->
                           [ReaderRouter EXCEPT !.clock_drift = IF r = StartReader THEN ds ELSE do]]
          /\ named_buffers = [b \in BufferNames |->
                                 [InitialBuffers[b] EXCEPT !.clock_drift = IF b = "start" THEN ds ELSE do]]
    /\ sync_registry = ReaderSyncRegistry(StartReader)
    /\ trial_delimiter = TrialDelimiter(0, 0)
    /\ new_trials = << >>
    /\ trial = NoTrial
    /\ writer = << >>
    /\ pc = "loop"
    /\ call = NoCall
    /\ reads = [r \in Readers |-> 0]
    /\ route_until_frame = NoFrame
    /\ stack = << >>
    /\ heap = NoHeap

InitDelim == InitDrifted /\ routers[OtherReader].clock_drift = 0

DelimResults ==
    {[n \in {"start"} |-> NumericEventList(<<row>>)] : row \in Rows({StartValue}) \cup {<<1, OtherValue>>}}

(* The start router appends one read to the start buffer. *)
FeedStart(result) ==
    /\ reads[StartReader] < MaxAppends
    /\ LET res == route_next(world, StartReader, ReadData(result))
       IN /\ SetWorld(res.w)
          /\ call' = [NoCall EXCEPT !.op = "route_next", !.router = StartReader,
                                    !.read = "data", !.ret = res.ret]
    /\ reads' = [reads EXCEPT ![StartReader] = @ + 1]
    /\ UNCHANGED <<heap, stack, route_until_frame, trial_delimiter, new_trials, trial, writer, pc>>

DelimNext ==
    /\ LET res == next(trial_delimiter, named_buffers["start"])
       IN /\ trial_delimiter' = res.self
          /\ new_trials' = res.trials
    /\ call' = [NoCall EXCEPT !.op = "next"]
    /\ UNCHANGED <<heap, stack, route_until_frame, routers, named_buffers, sync_registry, trial, writer, pc, reads>>

MaxLast == 1

DelimLast ==
    /\ trial_delimiter.trial_count < reads[StartReader] + MaxLast
    /\ LET res == last(trial_delimiter, named_buffers["start"])
       IN /\ trial_delimiter' = res.self
          /\ new_trials' = << [trial_number |-> res.trial_number, trial |-> res.trial] >>
    /\ call' = [NoCall EXCEPT !.op = "last"]
    /\ UNCHANGED <<heap, stack, route_until_frame, routers, named_buffers, sync_registry, trial, writer, pc, reads>>

(* discard_before with the start time of the trial made last. *)
DelimDiscard ==
    /\ call.op = "next"
    /\ new_trials # << >>
    /\ LET reference_time == new_trials[Len(new_trials)].trial.start_time
       IN /\ named_buffers' = [named_buffers EXCEPT
                                  !["start"] = delimiter_discard_before(@, reference_time)]
          /\ call' = [NoCall EXCEPT !.op = "discard_before", !.time = reference_time]
    /\ UNCHANGED <<heap, stack, route_until_frame, routers, sync_registry, trial_delimiter, new_trials, trial, writer, pc, reads>>

NextDelim ==
    \/ \E result \in DelimResults : FeedStart(result)
    \/ DelimNext
    \/ DelimLast
    \/ DelimDiscard

SpecDelim == InitDelim /\ [][NextDelim]_vars

(* The times, in ascending order, of the start events later than start_time. *)
RECURSIVE Ascending(_)
Ascending(times) ==
    IF times = {} THEN << >>
    ELSE LET least == CHOOSE t \in times : \A u \in times : t <= u
         IN <<least>> \o Ascending(times \ {least})

LaterStartTimes ==
    LET start_data == named_buffers["start"].data.event_data
    IN Ascending({start_data[i][1] : i \in {j \in 1..Len(start_data) :
                      start_data[j][2] = StartValue /\ start_data[j][1] > trial_delimiter.start_time}})

(* C3: next() emits, for every start event later than start_time, taken in   *)
(* ascending time order, one trial from the previous start time to the        *)
(* event's time (on the reference clock), numbers the trials consecutively    *)
(* from the trial counter and advances start_time to each event's time.       *)
C3_NextOneTrialPerStartEvent ==
    [][call'.op = "next" =>
        LET times == LaterStartTimes
            drift == named_buffers["start"].clock_drift
        IN /\ Len(new_trials') = Len(times)
           /\ \A i \in 1..Len(times) :
                 /\ new_trials'[i].trial_number = trial_delimiter.trial_count + i - 1
                 /\ new_trials'[i].trial.end_time = Some(times[i] - drift)
                 /\ new_trials'[i].trial.start_time =
                        (IF i = 1 THEN trial_delimiter.start_time ELSE times[i-1]) - drift
           /\ trial_delimiter'.trial_count = trial_delimiter.trial_count + Len(times)
           /\ trial_delimiter'.start_time =
                 IF Len(times) = 0 THEN trial_delimiter.start_time ELSE times[Len(times)]]_vars

(* C4: last() emits exactly one open-ended trial [start_time, None) numbered *)
(* with the current trial count, one more than the number of the last trial  *)
(* next() emitted; it increments the counter and leaves start_time unchanged.*)
C4_LastEmitsOpenTrial ==
    [][call'.op = "last" =>
        /\ new_trials' = << [trial_number |-> trial_delimiter.trial_count,
                             trial |-> Trial(trial_delimiter.start_time
                                                 - named_buffers["start"].clock_drift, None)] >>
        /\ (call.op = "next" /\ new_trials # << >>)
              => new_trials'[1].trial_number = new_trials[Len(new_trials)].trial_number + 1
        /\ trial_delimiter'.trial_count = trial_delimiter.trial_count + 1
        /\ trial_delimiter'.start_time = trial_delimiter.start_time]_vars

(* last() made trial 2 after next() made trials 0 and 1, on a drifting clock. *)
C4_Witness ==
    /\ call.op = "last"
    /\ named_buffers["start"].clock_drift # 0
    /\ Len(new_trials) = 1
    /\ new_trials[1].trial_number = 2
    /\ new_trials[1].trial.end_time = None
    /\ new_trials[1].trial.start_time = trial_delimiter.start_time - named_buffers["start"].clock_drift
    /\ trial_delimiter.trial_count = 3

(* ======================= the extractor on its own ===================== *)
MaxFeeds == 2

InitExtract == InitDrifted /\ routers[StartReader].clock_drift = 0

ExtractResults ==
    {[n \in {"wrt"} |-> NumericEventList(<<row>>)] : row \in Rows({WrtValue}) \cup {<<1, OtherValue>>}}
    \cup {[n \in {"foo"} |-> NumericEventList(<<row>>)] : row \in Rows({OtherValue})}
    \cup {[n \in {"sig"} |-> SignalChunk(<<7, 8>>, Some(SampleFrequency), Some(t))] : t \in {0, 1}}
    \cup {[n \in {"wrt", "foo"} |->
              IF n = "wrt" THEN NumericEventList(<<<<t, WrtValue>>>>)
              ELSE NumericEventList(<<<<t + 1, OtherValue>>>>)] : t \in Times}

(* The other router appends one read to the wrt and named buffers. *)
FeedOther(result, limit) ==
    /\ reads[OtherReader] < limit
    /\ LET res == route_next(world, OtherReader, ReadData(result))
       IN /\ SetWorld(res.w)
          /\ call' = [NoCall EXCEPT !.op = "route_next", !.router = OtherReader,
                                    !.read = "data", !.ret = res.ret]
    /\ reads' = [reads EXCEPT ![OtherReader] = @ + 1]
    /\ trial' = NoTrial
    /\ UNCHANGED <<heap, stack, route_until_frame, trial_delimiter, new_trials, writer, pc>>

Enhancer(enhancer, when) == [enhancer |-> enhancer, when |-> when]
(* "duration > 1" and "extra", with the default value of the configuration. *)
DurationGate ==
    Some(TrialExpression(Compare(Name("duration"), ">", Constant(PyFloat(1))), PyBool(FALSE)))
ExtraGate == Some(TrialExpression(Name("extra"), PyBool(FALSE)))
(* "abs": no enhancement of that name, so eval() finds the builtin function. *)
BuiltinGate == Some(TrialExpression(Name("abs"), PyBool(FALSE)))

(* The enhancer lists the extractor may be configured with. *)
EnhancerConfigs ==
    { << Enhancer("TrialDurationEnhancer", NoExpression), Enhancer("BadEnhancer", NoExpression),
         Enhancer("DurationPlusTrialNumber", NoExpression), Enhancer("ExtraEnhancer", DurationGate) >>,
      << Enhancer("DurationPlusTrialNumber", NoExpression), Enhancer("BadEnhancer", NoExpression),
         Enhancer("TrialDurationEnhancer", NoExpression) >>,
      << Enhancer("DurationPlusTrialNumber", ExtraGate), Enhancer("ExtraEnhancer", NoExpression),
         Enhancer("BadEnhancer", ExtraGate), Enhancer("TrialDurationEnhancer", ExtraGate) >>,
      << Enhancer("ExtraEnhancer", DurationGate), Enhancer("TrialDurationEnhancer", NoExpression),
         Enhancer("BadEnhancer", DurationGate), Enhancer("DurationPlusTrialNumber", DurationGate) >>,
      << Enhancer("ExtraEnhancer", BuiltinGate), Enhancer("DurationPlusTrialNumber", ExtraGate),
         Enhancer("TrialDurationEnhancer", BuiltinGate) >> }

(* The enhancer list of the tests. *)
LoopEnhancers ==
    << Enhancer("TrialDurationEnhancer", NoExpression), Enhancer("BadEnhancer", NoExpression),
       Enhancer("DurationPlusTrialNumber", NoExpression), Enhancer("ExtraEnhancer", DurationGate) >>

(* The trials the delimiter makes: start before end, or open-ended. *)
Windows ==
    {Trial(w[1], Some(w[2])) : w \in {v \in Times \X Times : v[1] < v[2]}}
    \cup {Trial(t, None) : t \in Times}

TrialNumbers == {0, 1}

Populate(new_trial, trial_number, enhancers) ==
    /\ call.op # "populate_trial"
    /\ LET res == populate_trial(new_trial, trial_number, named_buffers, enhancers)
       IN trial' = [trial_number |-> trial_number, trial |-> res.trial,
                    log |-> res.log, enhancers |-> enhancers]
    /\ call' = [NoCall EXCEPT !.op = "populate_trial"]
    /\ UNCHANGED <<heap, stack, route_until_frame, routers, named_buffers, sync_registry, trial_delimiter, new_trials, writer, pc, reads>>

ExtractDiscard ==
    /\ call.op = "populate_trial"
    /\ named_buffers' = extractor_discard_before(named_buffers, trial.trial.start_time)
    /\ call' = [NoCall EXCEPT !.op = "discard_before", !.time = trial.trial.start_time]
    /\ trial' = NoTrial
    /\ UNCHANGED <<heap, stack, route_until_frame, routers, sync_registry, trial_delimiter, new_trials, writer, pc, reads>>

NextExtract ==
    \/ \E result \in ExtractResults : FeedOther(result, MaxFeeds)
    \/ \E new_trial \in Windows : Populate(new_trial, 0, LoopEnhancers)
    \/ ExtractDiscard

SpecExtract == InitExtract /\ [][NextExtract]_vars

(* ------------- the extractor's enhancers, whatever their configuration - *)
MaxEnhanceFeeds == 1

EnhanceWindows == {Trial(0, Some(t)) : t \in 1..MaxTime} \cup {Trial(0, None)}

NextEnhance ==
    \/ \E result \in ExtractResults : FeedOther(result, MaxEnhanceFeeds)
    \/ \E new_trial \in EnhanceWindows : \E n \in TrialNumbers : \E enhancers \in EnhancerConfigs :
          Populate(new_trial, n, enhancers)
    \/ ExtractDiscard

SpecEnhance == InitProgram /\ [][NextEnhance]_vars

(* Whether a raw time of the buffer lies in the trial's range. *)
InTrialRange(buffer, t, raw_time) ==
    /\ raw_time >= t.start_time + buffer.clock_drift
    /\ (t.end_time = None \/ raw_time < Val(t.end_time) + buffer.clock_drift)

(* C5: populate_trial sets wrt_time to the earliest wrt event with the wrt    *)
(* value whose raw time is in [start_time, end_time) on the wrt buffer's      *)
(* clock, converted to the reference clock, and to 0 when there is none.      *)
C5_WrtTimeIsEarliestInRange ==
    call.op = "populate_trial" =>
        LET wrt_buffer == named_buffers["wrt"]
            rows == wrt_buffer.data.event_data
            marks == {rows[i][1] : i \in {j \in 1..Len(rows) :
                          rows[j][2] = WrtValue /\ InTrialRange(wrt_buffer, trial.trial, rows[j][1])}}
        IN IF marks = {} THEN trial.trial.wrt_time = 0
           ELSE /\ trial.trial.wrt_time + wrt_buffer.clock_drift \in marks
                /\ \A m \in marks : trial.trial.wrt_time + wrt_buffer.clock_drift <= m

(* Two wrt events in the trial's range on a drifting clock, and the earlier   *)
(* one, which was appended second, is the wrt time.                           *)
C5_Witness ==
    /\ call.op = "populate_trial"
    /\ named_buffers["wrt"].clock_drift # 0
    /\ LET rows == named_buffers["wrt"].data.event_data
       IN /\ Len(rows) = 2
          /\ rows[1][1] > rows[2][1]
          /\ \A i \in 1..2 : rows[i][2] = WrtValue
                               /\ InTrialRange(named_buffers["wrt"], trial.trial, rows[i][1])
          /\ trial.trial.wrt_time = rows[2][1] - named_buffers["wrt"].clock_drift
          /\ trial.trial.wrt_time # 0

(* C6: for every named buffer, populate_trial attaches under the buffer's     *)
(* name exactly the buffer's data whose raw time is in [start_time, end_time) *)
(* (unbounded above when end_time is None), every time shifted by minus the   *)
(* trial's wrt_time on that buffer's raw clock.                               *)
C6_BufferDataInRangeShifted ==
    call.op = "populate_trial" =>
        LET t == trial.trial
            foo == named_buffers["foo"]
            foo_rows == SelectSeq(foo.data.event_data, LAMBDA row : InTrialRange(foo, t, row[1]))
            sig == named_buffers["sig"]
            n == Len(sig.data.sample_data)
            time_of(i) == Val(sig.data.first_sample_time) + (i - 1)
            inside == {i \in 1..n : InTrialRange(sig, t, time_of(i))}
            first == CHOOSE i \in inside : \A j \in inside : i <= j
        IN /\ "foo" \in DOMAIN t.numeric_events
           /\ Len(t.numeric_events["foo"].event_data) = Len(foo_rows)
           /\ \A i \in 1..Len(foo_rows) :
                 t.numeric_events["foo"].event_data[i] =
                     <<foo_rows[i][1] - (t.wrt_time + foo.clock_drift), foo_rows[i][2]>>
           /\ "sig" \in DOMAIN t.signals
           /\ Len(t.signals["sig"].sample_data) = Cardinality(inside)
           /\ inside # {} =>
                 /\ \A k \in 1..Cardinality(inside) :
                       t.signals["sig"].sample_data[k] = sig.data.sample_data[first + k - 1]
                 /\ t.signals["sig"].first_sample_time =
                       Some(time_of(first) - (t.wrt_time + sig.clock_drift))
           /\ inside = {} => t.signals["sig"].first_sample_time = None

(* A trial that got one of two foo events, shifted by a wrt time on a         *)
(* drifting clock.                                                            *)
C6_Witness ==
    /\ call.op = "populate_trial"
    /\ named_buffers["foo"].clock_drift # 0
    /\ trial.trial.wrt_time # 0
    /\ trial.trial.end_time # None
    /\ Len(named_buffers["foo"].data.event_data) = 2
    /\ "foo" \in DOMAIN trial.trial.numeric_events
    /\ Len(trial.trial.numeric_events["foo"].event_data) = 1
    /\ trial.trial.numeric_events["foo"].event_data[1][1] < 0

(* A trial that got the second of the two samples of the signal buffer. *)
C6_WitnessSignal ==
    /\ call.op = "populate_trial"
    /\ named_buffers["sig"].clock_drift # 0
    /\ Len(named_buffers["sig"].data.sample_data) = 2
    /\ "sig" \in DOMAIN trial.trial.signals
    /\ trial.trial.signals["sig"].sample_data = <<8>>
    /\ trial.trial.wrt_time # 0

(* The enhancement each enhancer of the model adds. *)
EnhancementName(enhancer) ==
    IF enhancer = "TrialDurationEnhancer" THEN "duration"
    ELSE IF enhancer = "DurationPlusTrialNumber" THEN "duration_plus_trial_number"
    ELSE IF enhancer = "ExtraEnhancer" THEN "extra"
    ELSE ""

(* C7: populate_trial runs the enhancers in their declared order; one that    *)
(* raises is caught and skipped, every later enhancer still runs, and the     *)
(* trial comes back populated.                                                *)
C7_EnhancerFaultIsSkipped ==
    call.op = "populate_trial" =>
        LET es == trial.enhancers
            t == trial.trial
            ran == SelectSeq([i \in 1..Len(es) |-> i], LAMBDA i : trial.log[i] = "enhanced")
        IN /\ Len(trial.log) = Len(es)
           /\ \A i \in 1..Len(es) :
                 es[i].when = NoExpression =>
                     IF es[i].enhancer = "BadEnhancer" THEN trial.log[i] = "raised"
                     ELSE /\ trial.log[i] = "enhanced"
                          /\ EnhancementName(es[i].enhancer) \in DOMAIN t.enhancements
           /\ {"foo"} \subseteq DOMAIN t.numeric_events /\ {"sig"} \subseteq DOMAIN t.signals
           /\ ran # << >> =>
                 t.enhancement_categories["value"] =
                     [k \in 1..Len(ran) |-> EnhancementName(es[ran[k]].enhancer)]
           /\ \A i \in 1..Len(es) :
                 (es[i].enhancer = "DurationPlusTrialNumber" /\ trial.log[i] = "enhanced") =>
                     t.enhancements["duration_plus_trial_number"] =
                         IF t.end_time # None
                            /\ \E j \in 1..(i-1) : es[j].enhancer = "TrialDurationEnhancer"
                                                    /\ trial.log[j] = "enhanced"
                         THEN PyFloat(Val(t.end_time) - t.start_time + trial.trial_number)
                         ELSE PyNone

(* The second enhancer raised and the third used what the first had added. *)
C7_Witness ==
    /\ call.op = "populate_trial"
    /\ Len(trial.log) >= 3
    /\ trial.log[1] = "enhanced" /\ trial.log[2] = "raised" /\ trial.log[3] = "enhanced"
    /\ trial.trial_number = 1
    /\ "duration_plus_trial_number" \in DOMAIN trial.trial.enhancements
    /\ trial.trial.enhancements["duration_plus_trial_number"] = PyFloat(3)

(* C8: a gated enhancer runs only if its gate is true of the enhancements as  *)
(* they stand at its turn, values added by earlier enhancers included; when   *)
(* the gate is false or its evaluation raises, the enhancer is skipped and    *)
(* the later enhancers still run.                                             *)
C8_GateDecidesAtItsTurn ==
    call.op = "populate_trial" =>
        LET es == trial.enhancers
            t == trial.trial
            added_before(i, enhancer) ==
                \E j \in 1..(i-1) : es[j].enhancer = enhancer /\ trial.log[j] = "enhanced"
            gate_true(i) ==
                IF es[i].when = DurationGate
                THEN /\ added_before(i, "TrialDurationEnhancer")
                     /\ t.end_time # None
                     /\ Val(t.end_time) - t.start_time > 1
                ELSE IF es[i].when = BuiltinGate THEN TRUE
                ELSE added_before(i, "ExtraEnhancer")
        IN \A i \in 1..Len(es) :
              es[i].when # NoExpression =>
                  /\ Len(trial.log) >= i
                  /\ (trial.log[i] # "skipped") <=> gate_true(i)
                  /\ trial.log[i] = "skipped" =>
                        /\ Len(trial.log) = Len(es)
                        /\ \A k \in (i+1)..Len(es) :
                              (es[k].when = NoExpression /\ es[k].enhancer # "BadEnhancer")
                                  => trial.log[k] = "enhanced"

(* A gate on duration that was skipped for want of a duration, then, once an  *)
(* earlier enhancer had added the duration, let the next gated enhancers run.  *)
C8_Witness ==
    /\ call.op = "populate_trial"
    /\ trial.log = << "skipped", "enhanced", "raised", "enhanced" >>
    /\ trial.enhancers[1].when = DurationGate
    /\ trial.enhancers[4].when = DurationGate

(* ======================= the driving loop ============================= *)
(* context.py, run_without_plots: poll the start router; for each new trial *)
(* let every router catch up, refresh the drift estimates, populate the     *)
(* trial, hand it to the sink and discard old data; after the start reader  *)
(* is done, read once more, make the last trial and hand it over.           *)
(* run_with_plots does the same with the plot figure controller as one more *)
(* context manager; its loop also ends when the figures are closed, and it  *)
(* hands each trial to the plotters after the sink.  What the plotters draw *)
(* is no part of the state.                                                 *)
MaxStartReads == 2
MaxOtherReads == 2
MaxReads(r) == IF r = StartReader THEN MaxStartReads ELSE MaxOtherReads

(* A reader has finitely much data: after MaxReads reads it is exhausted. *)
LoopResults(r) ==
    IF r = StartReader
    THEN {[n \in {"start"} |-> NumericEventList(<<row>>)] :
              row \in {<<t, StartValue>> : t \in 1..MaxTime} \cup {<<0, SyncValue>>}}
         \cup {[n \in {"start"} |-> NumericEventList(<<<<1, StartValue>>, <<2, SyncValue>>>>)]}
    ELSE {[n \in {"wrt"} |-> NumericEventList(<<row>>)] :
              row \in {<<1, WrtValue>>, <<2, WrtValue>>, <<1, SyncValue>>, <<2, SyncValue>>}}
         \cup {[n \in {"foo"} |-> NumericEventList(<<<<t, OtherValue>>>>)] : t \in {1}}
         \cup {[n \in {"sig"} |-> SignalChunk(<<OtherValue, OtherValue>>, Some(SampleFrequency), Some(1))]}

LoopOutcomes(r, n) ==
    IF n >= MaxReads(r) THEN {ReadStop}
    ELSE {ReadNone, ReadError} \cup {ReadData(res) : res \in LoopResults(r)}

(* What the next len read_next() calls of reader r can do, after n calls. *)
RECURSIVE Scripts(_, _, _)
Scripts(r, n, len) ==
    IF len = 0 THEN {<< >>}
    ELSE {<< >>} \cup {<<o>> \o rest : o \in LoopOutcomes(r, n), rest \in Scripts(r, n + 1, len - 1)}

(* The context managers of a run, in the order the ExitStack enters them: *)
(* the trial file, then the readers.                                      *)
ContextManagers == << "writer", StartReader, OtherReader >>
(* run_with_plots enters the plot figure controller after the readers. *)
PlotFigureController == "plot_figure_controller"
ContextManagersWithPlots == ContextManagers \o << PlotFigureController >>
(* The run is one with plots. *)
WithPlots == \E i \in 1..Len(stack) : stack[i] = PlotFigureController
IndexOf(seq, x) == CHOOSE i \in 1..(Len(seq) + 1) : i = Len(seq) + 1 \/ seq[i] = x

(* A run starts before its with block; the other reader is configured *)
(* with simulate_delay.                                                *)
Init ==
    /\ routers = [r \in Readers |-> [ReaderRouter EXCEPT !.reader = Reader(r = OtherReader)]]
    /\ named_buffers = InitialBuffers
    /\ sync_registry = ReaderSyncRegistry(StartReader)
    /\ trial_delimiter = TrialDelimiter(0, 0)
    /\ new_trials = << >>
    /\ trial = NoTrial
    /\ writer = << >>
    /\ pc = "enter"
    /\ call = NoCall
    /\ reads = [r \in Readers |-> 0]
    /\ route_until_frame = NoFrame
    /\ stack = << >>
    /\ heap = NoHeap

(* stack.enter_context for each of the context managers in turn; fails  *)
(* names the context manager whose __enter__ raises, "" when none does.  *)
(* What was entered before stays on the stack and the with block is left. *)
EnterEach(managers, fails) ==
    /\ pc = "enter"
    /\ LET k == IF fails = "" THEN Len(managers) + 1 ELSE IndexOf(managers, fails)
       IN /\ stack' = SubSeq(managers, 1, k - 1)
          /\ routers' = [r \in Readers |->
                            IF IndexOf(managers, r) <= k
                            THEN [routers[r] EXCEPT !.reader =
                                     reader_enter(@, IndexOf(managers, r) = k).self]
                            ELSE routers[r]]
    /\ call' = [NoCall EXCEPT !.op = "enter_context", !.router = fails,
                              !.exc = IF fails = "" THEN "" ELSE "Exception"]
    /\ pc' = IF fails = "" THEN "loop" ELSE "aborted"
    /\ UNCHANGED <<heap, route_until_frame, named_buffers, sync_registry, trial_delimiter, new_trials,
                   trial, writer, reads>>

(* run_without_plots: the trial file and every reader. *)
EnterContexts(fails) == EnterEach(ContextManagers, fails)

(* run_with_plots: the trial file, every reader and the plot figure controller. *)
EnterContextsWithPlots(fails) == EnterEach(ContextManagersWithPlots, fails)

(* The with block is left, at its end or by an exception: the ExitStack *)
(* calls __exit__ of everything it entered, last entered first.         *)
ExitContexts ==
    /\ pc \in {"done", "aborted"}
    /\ routers' = [r \in Readers |->
                      IF \E i \in 1..Len(stack) : stack[i] = r
                      THEN [routers[r] EXCEPT !.reader = reader_exit(@)]
                      ELSE routers[r]]
    /\ stack' = << >>
    /\ call' = [NoCall EXCEPT !.op = "exit_stack", !.exc = IF pc = "aborted" THEN call.exc ELSE ""]
    /\ pc' = "exited"
    /\ UNCHANGED <<heap, route_until_frame, named_buffers, sync_registry, trial_delimiter, new_trials,
                   trial, writer, reads>>

(* while self.start_router.still_going(): route_next() and, with data, next(). *)
(* With plots the figures are open still, and their events may be flushed     *)
(* before the read.                                                           *)
Poll(read) ==
    /\ pc = "loop"
    /\ still_going(routers[StartReader])
    /\ LET got_start_data == route_next(world, StartReader, read)
           delimited == next(trial_delimiter, got_start_data.w.named_buffers["start"])
       IN /\ SetWorld(got_start_data.w)
          /\ call' = [NoCall EXCEPT !.op = "route_next", !.router = StartReader,
                                    !.read = read.kind, !.ret = got_start_data.ret]
          /\ IF got_start_data.ret
             THEN /\ trial_delimiter' = delimited.self
                  /\ new_trials' = delimited.trials
                  /\ pc' = IF delimited.trials = << >> THEN "loop" ELSE "catch_up_start"
             ELSE UNCHANGED <<trial_delimiter, new_trials, pc>>
    /\ reads' = [reads EXCEPT ![StartReader] = @ + 1]
    /\ UNCHANGED <<heap, stack, route_until_frame, trial, writer>>

(* router.route_until(new_trial.end_time), for one router. *)
CatchUp(r, script) ==
    /\ pc = IF r = StartReader THEN "catch_up_start" ELSE "catch_up_other"
    /\ LET res == route_until(world, r, Val(Head(new_trials).trial.end_time), script)
       IN /\ res.finished
          /\ res.used = Len(script)
          /\ SetWorld(res.w)
          /\ call' = [NoCall EXCEPT !.op = "route_until", !.router = r, !.time = res.ret]
    /\ reads' = [reads EXCEPT ![r] = @ + Len(script)]
    /\ pc' = IF r = StartReader THEN "catch_up_other" ELSE "drift"
    /\ UNCHANGED <<heap, stack, route_until_frame, trial_delimiter, new_trials, trial, writer>>

(* router.update_drift_estimate(end_time) for every router; a raise ends the run. *)
UpdateDrifts(reference_end_time, then) ==
    LET first == update_drift_estimate(world, StartReader, reference_end_time)
        second == update_drift_estimate(first.w, OtherReader, reference_end_time)
    IN IF first.exc # ""
       THEN /\ pc' = "aborted"
            /\ call' = [NoCall EXCEPT !.op = "update_drift_estimate", !.router = StartReader,
                                      !.exc = first.exc]
            /\ UNCHANGED <<routers, named_buffers, sync_registry>>
       ELSE IF second.exc # ""
       THEN /\ pc' = "aborted"
            /\ call' = [NoCall EXCEPT !.op = "update_drift_estimate", !.router = OtherReader,
                                      !.exc = second.exc]
            /\ SetWorld(first.w)
       ELSE /\ pc' = then
            /\ call' = [NoCall EXCEPT !.op = "update_drift_estimate", !.router = OtherReader,
                                      !.time = Val(second.ret)]
            /\ SetWorld(second.w)

RefreshDrift ==
    /\ pc = "drift"
    /\ UpdateDrifts(Head(new_trials).trial.end_time, "populate")
    /\ UNCHANGED <<heap, stack, route_until_frame, trial_delimiter, new_trials, trial, writer, reads>>

PopulateTrial ==
    /\ pc \in {"populate", "populate_last"}
    /\ LET new_trial == Head(new_trials)
           res == populate_trial(new_trial.trial, new_trial.trial_number, named_buffers, LoopEnhancers)
       IN trial' = [trial_number |-> new_trial.trial_number, trial |-> res.trial,
                    log |-> res.log, enhancers |-> LoopEnhancers]
    /\ call' = [NoCall EXCEPT !.op = "populate_trial"]
    /\ pc' = IF pc = "populate" THEN "append" ELSE "append_last"
    /\ UNCHANGED <<heap, stack, route_until_frame, routers, named_buffers, sync_registry, trial_delimiter, new_trials, writer, reads>>

(* writer.append_trial(new_trial); with plots the trial then goes to the *)
(* plotters of the figures that are open.                                *)
AppendTrial ==
    /\ pc \in {"append", "append_last"}
    /\ writer' = Append(writer, [trial_number |-> trial.trial_number, trial |-> trial.trial])
    /\ call' = [NoCall EXCEPT !.op = "append_trial"]
    /\ pc' = IF pc = "append" THEN "discard" ELSE "done"
    /\ UNCHANGED <<heap, stack, route_until_frame, routers, named_buffers, sync_registry, trial_delimiter, new_trials, trial, reads>>

(* The discards done once the trial is populated, ahead of the sink. *)
DiscardBefore_ahead_of_sink ==
    /\ pc = "append"
    /\ LET start_time == Head(new_trials).trial.start_time
       IN /\ named_buffers' =
                [extractor_discard_before(named_buffers, start_time) EXCEPT
                    !["start"] = delimiter_discard_before(named_buffers["start"], start_time)]
          /\ call' = [NoCall EXCEPT !.op = "discard_before", !.time = start_time]
    /\ UNCHANGED <<heap, stack, route_until_frame, routers, sync_registry, trial_delimiter,
                   new_trials, trial, writer, pc, reads>>

(* trial_delimiter.discard_before and trial_extractor.discard_before. *)
DiscardBefore ==
    /\ pc = "discard"
    /\ LET start_time == Head(new_trials).trial.start_time
       IN /\ named_buffers' =
                [extractor_discard_before(named_buffers, start_time) EXCEPT
                    !["start"] = delimiter_discard_before(named_buffers["start"], start_time)]
          /\ call' = [NoCall EXCEPT !.op = "discard_before", !.time = start_time]
    /\ new_trials' = Tail(new_trials)
    /\ pc' = IF Tail(new_trials) = << >> THEN "loop" ELSE "catch_up_start"
    /\ UNCHANGED <<heap, stack, route_until_frame, routers, sync_registry, trial_delimiter, trial, writer, reads>>

(* The start reader is done: the while loop ends. *)
LoopExit ==
    /\ pc = "loop"
    /\ ~still_going(routers[StartReader])
    /\ pc' = "final_reads"
    /\ call' = NoCall
    /\ UNCHANGED <<heap, stack, route_until_frame, routers, named_buffers, sync_registry, trial_delimiter, new_trials, trial,
                   writer, reads>>

(* With plots the while loop ends as well when no figure is open any  *)
(* more or a plotter asks to quit, whatever the start reader has left. *)
FiguresClosed ==
    /\ pc = "loop"
    /\ WithPlots
    /\ still_going(routers[StartReader])
    /\ pc' = "final_reads"
    /\ call' = NoCall
    /\ UNCHANGED <<heap, stack, route_until_frame, routers, named_buffers, sync_registry, trial_delimiter, new_trials, trial,
                   writer, reads>>

(* for router in self.routers.values(): router.route_next().  A router *)
(* that is disabled does not call its reader: its read is ReadNone.    *)
FinalReads(start_read, other_read) ==
    /\ pc = "final_reads"
    /\ LET first == route_next(world, StartReader, start_read)
           second == route_next(first.w, OtherReader, other_read)
       IN /\ first.called \/ start_read = ReadNone
          /\ second.called \/ other_read = ReadNone
          /\ SetWorld(second.w)
          /\ call' = [NoCall EXCEPT !.op = "route_next", !.router = OtherReader,
                                    !.read = IF second.called THEN other_read.kind ELSE "",
                                    !.ret = second.ret]
          /\ reads' = [r \in Readers |->
                          reads[r] + IF (IF r = StartReader THEN first.called ELSE second.called)
                                     THEN 1 ELSE 0]
    /\ pc' = "final_drift"
    /\ UNCHANGED <<heap, stack, route_until_frame, trial_delimiter, new_trials, trial, writer>>

FinalDrift ==
    /\ pc = "final_drift"
    /\ UpdateDrifts(None, "last")
    /\ UNCHANGED <<heap, stack, route_until_frame, trial_delimiter, new_trials, trial, writer, reads>>

LastTrial ==
    /\ pc = "last"
    /\ LET res == last(trial_delimiter, named_buffers["start"])
       IN /\ trial_delimiter' = res.self
          /\ new_trials' = << [trial_number |-> res.trial_number, trial |-> res.trial] >>
    /\ call' = [NoCall EXCEPT !.op = "last"]
    /\ pc' = "populate_last"
    /\ UNCHANGED <<heap, stack, route_until_frame, routers, named_buffers, sync_registry, trial, writer, reads>>

Next ==
    \/ \E read \in LoopOutcomes(StartReader, reads[StartReader]) : Poll(read)
    \/ \E r \in Readers : \E script \in Scripts(r, reads[r], MaxReads(r) + 1) : CatchUp(r, script)
    \/ RefreshDrift
    \/ PopulateTrial
    \/ AppendTrial
    \/ DiscardBefore
    \/ LoopExit
    \/ FiguresClosed
    \/ \E start_read \in LoopOutcomes(StartReader, reads[StartReader]) \cup {ReadNone} :
          \E other_read \in LoopOutcomes(OtherReader, reads[OtherReader]) \cup {ReadNone} :
             FinalReads(start_read, other_read)
    \/ FinalDrift
    \/ LastTrial
    \/ \E fails \in {""} \cup {ContextManagers[i] : i \in 1..Len(ContextManagers)} : EnterContexts(fails)
    \/ \E fails \in {""} \cup {ContextManagersWithPlots[i] : i \in 1..Len(ContextManagersWithPlots)} :
          EnterContextsWithPlots(fails)
    \/ ExitContexts

Spec == Init /\ [][Next]_vars

(* C2: in the driving loop a reader other than the start reader that      *)
(* faults or is exhausted is only disabled itself: the run goes on to the  *)
(* final trial and never aborts.                                           *)
C2_RunSurvivesReaderFault ==
    routers[OtherReader].reader_exception # "" => pc # "aborted"

(* ======================= sync pulses that one side may miss =========== *)
(* Real-world sync pulses come every SyncInterval.  The reference reader  *)
(* records pulse k at k * SyncInterval, and another reader at that time   *)
(* plus a skew of magnitude at most MaxSkew, less than half the interval. *)
(* Either may miss pulses, and record_event takes what it is given: the   *)
(* calls of the two readers come in any order, as do the times.           *)
SyncInterval == 3
MaxPulses == 3
MaxSkew == (SyncInterval - 1) \div 2
Skews == (-MaxSkew)..MaxSkew
PulseTime(k) == k * SyncInterval
PulseOf(t) == (t + MaxSkew) \div SyncInterval

(* The times at which a reader may record a pulse. *)
PulseTimes(reader_name) ==
    {PulseTime(k) + skew : k \in 0..(MaxPulses - 1),
                           skew \in IF reader_name = StartReader THEN {0} ELSE Skews}

(* The pulses a reader has recorded. *)
PulsesOf(reader_name) ==
    {PulseOf(sync_registry.event_times[reader_name][i]) :
        i \in 1..Len(sync_registry.event_times[reader_name])}

LatestPulse(pulses) == CHOOSE k \in pulses : \A j \in pulses : j <= k

(* One record_event call, made by a router for its own reader. *)
RecordSyncEvent(reader_name, event_time) ==
    /\ Len(sync_registry.event_times[StartReader]) + Len(sync_registry.event_times[OtherReader])
           <= MaxPulses
    /\ sync_registry' = record_event(sync_registry, reader_name, event_time)
    /\ call' = [NoCall EXCEPT !.op = "record_event", !.router = reader_name, !.time = event_time]
    /\ UNCHANGED <<heap, stack, route_until_frame, routers, named_buffers, trial_delimiter, new_trials, trial, writer, pc, reads>>

NextPulses ==
    \/ \E reader_name \in Readers : \E event_time \in PulseTimes(reader_name) :
          RecordSyncEvent(reader_name, event_time)
    \/ GetDrift(OtherReader, None, None)

SpecPulses == InitProgram /\ [][NextPulses]_vars

(* The time at which a reader recorded pulse k. *)
RecordedAt(reader_name, k) ==
    LET times == sync_registry.event_times[reader_name]
    IN times[CHOOSE i \in 1..Len(times) : PulseOf(times[i]) = k]

(* The reader recorded each pulse at most once and in the order of the *)
(* pulses.                                                             *)
InPulseOrder(reader_name) ==
    LET times == sync_registry.event_times[reader_name]
    IN \A i \in 1..(Len(times) - 1) : PulseOf(times[i]) < PulseOf(times[i + 1])

(* The sync events of each side are pulses in the order they happened, *)
(* none twice: the reader's are the reference's, each offset by its     *)
(* skew, but for the pulses that either has missed.                     *)
SkewedPulses == InPulseOrder(StartReader) /\ InPulseOrder(OtherReader)

(* C11: the reader's sync events being the reference's, each offset by a   *)
(* skew smaller than half the interval between pulses, when one side has   *)
(* missed the pulses after the latest one both sides recorded and the      *)
(* other side kept recording, get_drift returns the offset at that latest  *)
(* common pulse, not a value that grows with the missed pulses; this in    *)
(* whatever order the two sides' record_event calls were made.             *)
C11_DriftFallsBackToLatestCommonPulse ==
    LET common == PulsesOf(StartReader) \cap PulsesOf(OtherReader)
    IN (/\ call.op = "get_drift"
        /\ SkewedPulses
        /\ common # {}
        /\ \/ LatestPulse(PulsesOf(StartReader)) = LatestPulse(common)
           \/ LatestPulse(PulsesOf(OtherReader)) = LatestPulse(common))
       => /\ call.exc = ""
          /\ call.time = RecordedAt(OtherReader, LatestPulse(common))
                            - RecordedAt(StartReader, LatestPulse(common))

(* The reader recorded pulse 0 only, skewed, and the reference two more. *)
C11_Witness ==
    /\ call.op = "get_drift" /\ call.exc = ""
    /\ SkewedPulses
    /\ PulsesOf(StartReader) = {0, 1, 2}
    /\ PulsesOf(OtherReader) = {0}
    /\ call.time # 0
    /\ call.time = RecordedAt(OtherReader, 0) - RecordedAt(StartReader, 0)

(* ======================= route_until on its own ======================= *)
MaxUntilReads == 2
UntilScriptLen == EmptyReadsAllowed + 2

UntilResults == {[n \in {"start"} |-> NumericEventList(<<<<t, StartValue>>>>)] : t \in 1..MaxTime}

(* What the reader's coming read_next() calls do: nothing, data, or a  *)
(* raise, after which the router asks no more.                          *)
RECURSIVE UntilScripts(_)
UntilScripts(len) ==
    IF len = 0 THEN {<< >>}
    ELSE {<< >>} \cup {<<ReadStop>>, <<ReadError>>}
         \cup {<<o>> \o rest : o \in {ReadNone} \cup {ReadData(res) : res \in UntilResults},
                               rest \in UntilScripts(len - 1)}

UntilTargets == 0..(MaxTime + 1)

(* One route_until call; script is what the reader does in the reads the *)
(* call makes.                                                           *)
RouteUntil(r, target_reference_time, script) ==
    /\ reads[r] < MaxUntilReads
    /\ LET res == route_until(world, r, target_reference_time, script)
       IN /\ res.finished
          /\ res.used = Len(script)
          /\ SetWorld(res.w)
          /\ call' = [NoCall EXCEPT !.op = "route_until", !.router = r, !.time = res.ret,
                                    !.reference_end_time = Some(target_reference_time),
                                    !.script = script]
          /\ reads' = [reads EXCEPT ![r] = @ + res.used]
    /\ UNCHANGED <<heap, stack, route_until_frame, trial_delimiter, new_trials, trial, writer, pc>>

NextUntil ==
    \E target \in UntilTargets : \E script \in UntilScripts(UntilScriptLen - reads[StartReader]) :
        RouteUntil(StartReader, target, script)

SpecUntil == InitDelim /\ [][NextUntil]_vars

(* The program state after the first i reads of a script, one route_next each. *)
RECURSIVE AfterReads(_, _, _, _)
AfterReads(w, r, script, i) ==
    IF i = 0 THEN w
    ELSE route_next(AfterReads(w, r, script, i - 1), r, script[i]).w

(* Whether the i-th read of a script made route_next return True. *)
GotData(w, r, script, i) == route_next(AfterReads(w, r, script, i - 1), r, script[i]).ret

(* The number of reads in a row, ending with the i-th, that got no data. *)
RECURSIVE EmptyRun(_, _, _, _)
EmptyRun(w, r, script, i) ==
    IF i = 0 THEN 0
    ELSE IF GotData(w, r, script, i) THEN 0
    ELSE EmptyRun(w, r, script, i - 1) + 1

(* C12: route_until(target) calls route_next until max_buffer_time has     *)
(* reached target plus the router's drift or more than empty_reads_allowed *)
(* reads in a row were empty, and returns max_buffer_time; it reads only   *)
(* while neither holds, so not at all when the target is reached on entry. *)
C12_RouteUntilStopsAtTargetOrBudget ==
    [][call'.op = "route_until" =>
        LET r == call'.router
            script == call'.script
            n == reads'[r] - reads[r]
            target_reader_time == Val(call'.reference_end_time) + routers[r].clock_drift
            Reached(i) == AfterReads(world, r, script, i).routers[r].max_buffer_time >= target_reader_time
            Spent(i) == EmptyRun(world, r, script, i) > empty_reads_allowed(r)
        IN /\ n <= Len(script)
           /\ \A i \in 0..(n - 1) : ~Reached(i) /\ ~Spent(i)
           /\ Reached(n) \/ Spent(n) \/ ~still_going(routers'[r])
           /\ World(routers', named_buffers', sync_registry') = AfterReads(world, r, script, n)
           /\ call'.time = routers'[r].max_buffer_time
    ]_vars

(* A call that read through an empty read to reach its target exactly, *)
(* on a drifting clock.                                                *)
C12_Witness ==
    /\ call.op = "route_until"
    /\ Len(call.script) = 3
    /\ call.script[2] = ReadNone
    /\ routers[StartReader].clock_drift # 0
    /\ routers[StartReader].max_buffer_time = Val(call.reference_end_time) + routers[StartReader].clock_drift
    /\ call.time = routers[StartReader].max_buffer_time

(* An empty read: the reader returned None or an empty mapping. *)
IsEmptyRead(read) == read.kind = "none" \/ (read.kind = "data" /\ DOMAIN read.result = {})

(* What a reader does when its empty reads are left out. *)
WithoutGaps(script) == SelectSeq(script, LAMBDA read : ~IsEmptyRead(read))

(* The longest run of empty reads in a script. *)
LongestGap(script) ==
    LET run[i \in 0..Len(script)] ==
            IF i = 0 THEN 0 ELSE IF IsEmptyRead(script[i]) THEN run[i - 1] + 1 ELSE 0
    IN IF script = << >> THEN 0
       ELSE CHOOSE m \in {run[i] : i \in 1..Len(script)} : \A i \in 1..Len(script) : run[i] <= m

(* C14: when no run of empty reads met by a route_until call is longer    *)
(* than empty_reads_allowed, the call ends as it would on the same reader *)
(* without the empty reads: it stops at the same read of data (the first  *)
(* that reaches the target, or the reader's raise), with the same buffers *)
(* and the same max_buffer_time, which it returns.                        *)
C14_GapsWithinBudgetAreReadThrough ==
    [][(call'.op = "route_until" /\ LongestGap(call'.script) <= empty_reads_allowed(call'.router)) =>
        LET r == call'.router
            gapless == WithoutGaps(call'.script)
            n == Len(gapless)
            target_reader_time == Val(call'.reference_end_time) + routers[r].clock_drift
            Reached(i) == AfterReads(world, r, gapless, i).routers[r].max_buffer_time >= target_reader_time
        IN /\ \A i \in 0..(n - 1) : ~Reached(i)
           /\ Reached(n) \/ ~still_going(AfterReads(world, r, gapless, n).routers[r])
           /\ World(routers', named_buffers', sync_registry') = AfterReads(world, r, gapless, n)
           /\ call'.time = AfterReads(world, r, gapless, n).routers[r].max_buffer_time
    ]_vars

(* A call that read data, then as many empty reads as allowed, then the *)
(* data that reached its target.                                        *)
C14_Witness ==
    /\ call.op = "route_until"
    /\ Len(call.script) = EmptyReadsAllowed + 2
    /\ call.script[1].kind = "data"
    /\ \A i \in 2..(EmptyReadsAllowed + 1) : call.script[i] = ReadNone
    /\ call.script[EmptyReadsAllowed + 2].kind = "data"
    /\ Len(named_buffers["start"].data.event_data) = 2
    /\ call.time >= Val(call.reference_end_time) + routers[StartReader].clock_drift

(* ================= route_until, one route_next at a time ============== *)
MaxLoopRows == 2

(* Besides data for its route, the reader may return a result no route asks for. *)
LoopReads ==
    {ReadNone, ReadStop, ReadError}
    \cup {ReadData(res) : res \in UntilResults}
    \cup {ReadData([n \in {"unexpected"} |-> NumericEventList(<<<<1, OtherValue>>>>)])}

(* route_until is called: its locals before the first test of the loop. *)
UntilEnter(r, target_reference_time) ==
    /\ route_until_frame.router = ""
    /\ route_until_frame' = [router |-> r,
                             target_reader_time |-> target_reference_time + routers[r].clock_drift,
                             empty_reads |-> 0]
    /\ call' = [NoCall EXCEPT !.op = "route_until.enter", !.router = r,
                              !.reference_end_time = Some(target_reference_time)]
    /\ UNCHANGED <<routers, named_buffers, sync_registry, trial_delimiter, new_trials, trial,
                   writer, pc, reads, stack, heap>>

(* One pass of the while loop: route_next, then the count of empty reads; *)
(* empty_run is the number of route_next calls in a row that returned     *)
(* False in this call.                                                    *)
UntilStep(read) ==
    LET r == route_until_frame.router
    IN /\ r # ""
       /\ route_until_continues(world, r, route_until_frame.target_reader_time,
                                route_until_frame.empty_reads)
       /\ (read.kind = "data" /\ "start" \in DOMAIN read.result)
              => Len(named_buffers["start"].data.event_data) < MaxLoopRows
       /\ LET got_data == route_next(world, r, read)
          IN /\ SetWorld(got_data.w)
             /\ route_until_frame' =
                    [route_until_frame EXCEPT !.empty_reads = IF got_data.ret THEN 0 ELSE @ + 1]
             /\ call' = [NoCall EXCEPT !.op = "route_next", !.router = r,
                                       !.read = IF got_data.called THEN read.kind ELSE "",
                                       !.ret = got_data.ret,
                                       !.reference_end_time = call.reference_end_time,
                                       !.empty_run = IF got_data.ret THEN 0 ELSE call.empty_run + 1]
       /\ UNCHANGED <<trial_delimiter, new_trials, trial, writer, pc, reads, stack, heap>>

(* The while condition is false: route_until returns max_buffer_time. *)
UntilReturn ==
    LET r == route_until_frame.router
    IN /\ r # ""
       /\ ~route_until_continues(world, r, route_until_frame.target_reader_time,
                                 route_until_frame.empty_reads)
       /\ route_until_frame' = NoFrame
       /\ call' = [NoCall EXCEPT !.op = "route_until", !.router = r,
                                 !.time = routers[r].max_buffer_time,
                                 !.reference_end_time = call.reference_end_time,
                                 !.empty_run = call.empty_run]
       /\ UNCHANGED <<routers, named_buffers, sync_registry, trial_delimiter, new_trials, trial,
                      writer, pc, reads, stack, heap>>

UntilLoopStep == \E read \in LoopReads : UntilStep(read)

NextUntilLoop ==
    \/ \E target \in UntilTargets : UntilEnter(StartReader, target)
    \/ UntilLoopStep
    \/ UntilReturn

(* The driving thread runs on and read_next() returns, so a call in    *)
(* progress makes its next pass or returns.                            *)
SpecUntilLoop ==
    InitDelim /\ [][NextUntilLoop]_vars /\ WF_vars(UntilLoopStep) /\ WF_vars(UntilReturn)

InUntil == route_until_frame.router # ""

(* C13 as stated: every route_until call returns, whatever the reader does. *)
C13_EveryRouteUntilReturns == InUntil ~> ~InUntil

(* C13: a route_until call makes at most empty_reads_allowed + 1 route_next *)
(* calls in a row that return False, so it returns unless the reader keeps  *)
(* returning results: from every point of a call, the call returns or a     *)
(* later route_next of it returns True.                                     *)
C13_RouteUntilReturnsUnlessDataKeepsComing ==
    /\ [](InUntil => call.empty_run <= empty_reads_allowed(route_until_frame.router) + 1)
    /\ [][(InUntil /\ call.empty_run = empty_reads_allowed(route_until_frame.router) + 1)
             => ~InUntil']_vars
    /\ (InUntil /\ call.op = "route_next" /\ ~call.ret)
           ~> (~InUntil \/ (call.op = "route_next" /\ call.ret))

(* A call that returned below its target after running out its budget *)
(* of empty reads behind some data.                                   *)
C13_Witness ==
    /\ call.op = "route_until"
    /\ call.empty_run = EmptyReadsAllowed + 1
    /\ named_buffers["start"].data.event_data # << >>
    /\ call.time < Val(call.reference_end_time) + routers[StartReader].clock_drift

(* ================= the router with transformers on its own ============ *)
MaxRouteReads == 3

EventRows ==
    {<<<<t, v>>>> : t \in 1..MaxTime, v \in {OtherValue, FilterMin, EventsSyncValue}}
    \cup {<< <<2, EventsSyncValue>>, <<1, EventsSyncValue>> >>,
          << <<1, FilterMin>>, <<2, FilterMax>> >>}

(* A row of four columns, which numpy will not append to rows of two. *)
WideRows == << <<2, FilterMin, 200, 2000>> >>

EventsResults ==
    {[n \in {"events"} |-> NumericEventList(rows)] : rows \in EventRows}
    \cup {[n \in {"events"} |-> NumericEventList(WideRows)],
          [n \in {"events"} |-> SignalChunk(<<7, 8>>, Some(SampleFrequency), Some(1))],
          [n \in {"events", "more"} |->
              IF n = "events" THEN NumericEventList(WideRows)
              ELSE NumericEventList(<<<<1, OtherValue>>>>)],
          [n \in {"more"} |-> NumericEventList(<<<<2, OtherValue>>>>)],
          [n \in {"unexpected"} |-> NumericEventList(<<<<3, OtherValue>>>>)]}

EventsOutcomes ==
    {ReadNone, ReadStop, ReadError, ReadData(<< >>)} \cup {ReadData(res) : res \in EventsResults}

InitEvents ==
    /\ routers = [r \in {EventsReader} |-> ReaderRouter]
    /\ named_buffers = [b \in EventsBufferNames |-> Buffer(NumericEventList(<< >>), 0)]
    /\ sync_registry = [reference_reader_name |-> EventsReader,
                        event_times |-> [n \in Readers \cup {EventsReader} |-> << >>]]
    /\ trial_delimiter = TrialDelimiter(0, 0)
    /\ new_trials = << >>
    /\ trial = NoTrial
    /\ writer = << >>
    /\ pc = "loop"
    /\ call = NoCall
    /\ reads = [r \in {EventsReader} |-> 0]
    /\ route_until_frame = NoFrame
    /\ stack = << >>
    /\ heap = NoHeap

(* One route_next call of the events router; script keeps what the reader did. *)
RouteEvents(read) ==
    /\ reads[EventsReader] < MaxRouteReads
    /\ LET res == route_next(world, EventsReader, read)
       IN /\ SetWorld(res.w)
          /\ call' = [NoCall EXCEPT !.op = "route_next", !.router = EventsReader,
                                    !.read = IF res.called THEN read.kind ELSE "",
                                    !.ret = res.ret,
                                    !.script = IF res.called THEN <<read>> ELSE << >>]
          /\ reads' = [reads EXCEPT ![EventsReader] = @ + 1]
    /\ UNCHANGED <<heap, stack, route_until_frame, trial_delimiter, new_trials, trial, writer, pc>>

NextEvents == \E read \in EventsOutcomes : RouteEvents(read)

SpecEvents == InitEvents /\ [][NextEvents]_vars

(* C15: when read_next returns None or an empty mapping, route_next returns *)
(* False and the buffers, the sync registry, max_buffer_time and the latch  *)
(* are as before the call.                                                  *)
C15_EmptyReadChangesNothing ==
    [][(call'.op = "route_next" /\ call'.script # << >> /\ IsEmptyRead(call'.script[1]))
        => /\ ~call'.ret
           /\ named_buffers' = named_buffers
           /\ sync_registry' = sync_registry
           /\ routers' = routers]_vars

(* An empty mapping read by a router that holds data and sync events. *)
C15_Witness ==
    /\ call.op = "route_next" /\ call.script = <<ReadData(<< >>)>>
    /\ routers[EventsReader].max_buffer_time > 0
    /\ sync_registry.event_times[EventsReader] # << >>
    /\ still_going(routers[EventsReader])

(* C16: route_next returns True exactly when the router was not disabled *)
(* and its reader returned a non-empty result on that call, whether or   *)
(* not any route matched the result or kept its data.                    *)
C16_TrueIffReaderReturnedData ==
    [][call'.op = "route_next" =>
        (call'.ret <=> /\ still_going(routers[call'.router])
                       /\ call'.script # << >>
                       /\ call'.script[1].kind = "data"
                       /\ ~IsEmptyRead(call'.script[1]))]_vars

(* True for a first result none of whose routes could append its data. *)
C16_Witness ==
    /\ call.op = "route_next" /\ call.ret
    /\ call.script = <<ReadData([n \in {"events"} |-> NumericEventList(WideRows)])>>
    /\ reads[EventsReader] = 1
    /\ \A b \in EventsBufferNames : named_buffers[b].data.event_data = << >>

(* The reader returned an event list under a name. *)
HasEvents(read, name) ==
    /\ read.kind = "data"
    /\ name \in DOMAIN read.result
    /\ read.result[name].kind = "events"

IsWide(rows) == \E i \in 1..Len(rows) : Len(rows[i]) # RowWidth

(* C17: when the transformer of the route to "err" raises, "err" is left *)
(* as it was, the routes to "one" and "more" still append the data of    *)
(* the same read, and the router is not disabled; this holds for every   *)
(* read, so also for the reads after one whose transformer raised.       *)
C17_TransformerErrorDropsOneRoute ==
    [][(call'.op = "route_next" /\ call'.script # << >> /\ HasEvents(call'.script[1], "events"))
        => LET read == call'.script[1]
               rows == read.result["events"].event_data
           IN /\ named_buffers'["err"] = named_buffers["err"]
              /\ ~IsWide(rows) =>
                    named_buffers'["one"].data.event_data = named_buffers["one"].data.event_data \o rows
              /\ HasEvents(read, "more") =>
                    named_buffers'["more"].data.event_data =
                        named_buffers["more"].data.event_data \o read.result["more"].event_data
              /\ still_going(routers'[EventsReader])
              /\ call'.ret]_vars

(* Two reads whose events went to "one" while the transformer of "err" *)
(* raised on both.                                                     *)
C17_Witness ==
    /\ call.op = "route_next" /\ call.ret
    /\ HasEvents(call.script[1], "events")
    /\ reads[EventsReader] = 2
    /\ Len(named_buffers["one"].data.event_data) = 3
    /\ named_buffers["err"].data.event_data = << >>
    /\ still_going(routers[EventsReader])

(* C18: when the "events" data of a read cannot be appended (rows of     *)
(* another width, or a signal for a buffer of events), the buffers of its *)
(* routes keep their contents, the route to "more" still appends its data *)
(* of the same read, and the router is not disabled; data that can be     *)
(* appended are appended to "one", also after a read that failed.         *)
C18_AppendErrorDropsOneRoute ==
    [][(call'.op = "route_next" /\ call'.script # << >> /\ call'.script[1].kind = "data"
            /\ "events" \in DOMAIN call'.script[1].result)
        => LET read == call'.script[1]
               data == read.result["events"]
           IN /\ IF data.kind # "events" \/ IsWide(data.event_data)
                 THEN \A b \in {"one", "err", "two"} : named_buffers'[b] = named_buffers[b]
                 ELSE named_buffers'["one"].data.event_data =
                          named_buffers["one"].data.event_data \o data.event_data
              /\ HasEvents(read, "more") =>
                    named_buffers'["more"].data.event_data =
                        named_buffers["more"].data.event_data \o read.result["more"].event_data
              /\ still_going(routers'[EventsReader])
              /\ call'.ret]_vars

(* Events appended to "one" by the read after one whose rows were too *)
(* wide for it, and whose "more" data were appended all the same.     *)
C18_Witness ==
    /\ call.op = "route_next" /\ call.ret
    /\ HasEvents(call.script[1], "events")
    /\ reads[EventsReader] = 2
    /\ named_buffers["more"].data.event_data = <<<<1, OtherValue>>>>
    /\ Len(named_buffers["one"].data.event_data) = 2
    /\ still_going(routers[EventsReader])

(* What the route to "two" makes of rows: those with a value in        *)
(* [FilterMin, FilterMax), and then their values plus Offset, times Gain. *)
FilteredThenScaled(rows) ==
    LET F[i \in 0..Len(rows)] ==
            IF i = 0 THEN << >>
            ELSE IF rows[i][2] >= FilterMin /\ rows[i][2] < FilterMax
                 THEN Append(F[i - 1], <<rows[i][1], (rows[i][2] + Offset) * Gain>>)
                 ELSE F[i - 1]
    IN F[Len(rows)]

(* C19: the route to "two" applies its filter first and its offset and   *)
(* gain to what the filter kept, and "two" receives that; "one", another *)
(* route of the same result, receives the rows as the reader gave them.  *)
C19_TransformersInDeclaredOrder ==
    [][(call'.op = "route_next" /\ call'.script # << >> /\ HasEvents(call'.script[1], "events")
            /\ ~IsWide(call'.script[1].result["events"].event_data))
        => LET rows == call'.script[1].result["events"].event_data
           IN /\ named_buffers'["two"].data.event_data =
                     named_buffers["two"].data.event_data \o FilteredThenScaled(rows)
              /\ named_buffers'["one"].data.event_data =
                     named_buffers["one"].data.event_data \o rows]_vars

(* A read of two events, one inside the filter's range and one at its *)
(* upper end: "two" received the first, scaled, and "one" both.       *)
C19_Witness ==
    /\ call.op = "route_next"
    /\ call.script = <<ReadData([n \in {"events"} |->
                          NumericEventList(<< <<1, FilterMin>>, <<2, FilterMax>> >>)])>>
    /\ named_buffers["two"].data.event_data = << <<1, (FilterMin + Offset) * Gain>> >>
    /\ named_buffers["one"].data.event_data = << <<1, FilterMin>>, <<2, FilterMax>> >>

(* The times of the rows whose first value is the sync value, in the order of the rows. *)
SyncTimes(rows) ==
    LET F[i \in 0..Len(rows)] ==
            IF i = 0 THEN << >>
            ELSE IF rows[i][2] = EventsSyncValue THEN Append(F[i - 1], rows[i][1]) ELSE F[i - 1]
    IN F[Len(rows)]

(* C20: a read that returns data appends to the registry, under the      *)
(* router's sync reader name, the time of every event of the "events"    *)
(* result whose value is the sync value, in the order read, and nothing  *)
(* else; a read with no such event leaves the registry as it was.        *)
C20_SyncEventsRecordedInOrder ==
    [][(call'.op = "route_next" /\ call'.ret) =>
        LET read == call'.script[1]
            recorded == IF HasEvents(read, "events")
                        THEN SyncTimes(read.result["events"].event_data)
                        ELSE << >>
        IN sync_registry' =
              [sync_registry EXCEPT !.event_times[EventsReader] = @ \o recorded]]_vars

(* Two sync events of one read, the later one first, recorded as read *)
(* behind the sync event of an earlier read.                          *)
C20_Witness ==
    /\ call.op = "route_next"
    /\ call.script = <<ReadData([n \in {"events"} |->
                          NumericEventList(<< <<2, EventsSyncValue>>, <<1, EventsSyncValue>> >>)])>>
    /\ sync_registry.event_times[EventsReader] = <<3, 2, 1>>
    /\ Len(named_buffers["one"].data.event_data) = 4

(* =================== the high water mark of a router ================== *)
(* The end times of the buffers a router owns that hold data. *)
EndTimes(buffers, r) ==
    {Val(get_end_time(buffers[b].data)) :
        b \in {n \in router_buffer_names(r) : ~IsNone(get_end_time(buffers[n].data))}}

(* C21 as stated: after a route_next call that read data, max_buffer_time *)
(* is the greatest end time of the router's buffers that hold data.       *)
C21_MaxBufferTimeIsMaxEndTime ==
    [][(call'.op = "route_next" /\ call'.ret /\ EndTimes(named_buffers', call'.router) # {})
        => /\ routers'[call'.router].max_buffer_time \in EndTimes(named_buffers', call'.router)
           /\ \A e \in EndTimes(named_buffers', call'.router) :
                  e <= routers'[call'.router].max_buffer_time]_vars

(* C21: after a route_next call that read data, max_buffer_time is the  *)
(* greater of its value before the call and the greatest end time of    *)
(* the router's buffers: a high water mark, which no call lowers.       *)
C21_MaxBufferTimeIsHighWaterMark ==
    [][(call'.op = "route_next" /\ call'.ret)
        => LET r == call'.router
               marks == EndTimes(named_buffers', r) \cup {routers[r].max_buffer_time}
           IN /\ routers'[r].max_buffer_time \in marks
              /\ \A e \in marks : e <= routers'[r].max_buffer_time]_vars

(* A read into buffers whose latest data had been discarded: the mark *)
(* stays above every end time.                                        *)
C21_Witness ==
    /\ call.op = "route_next" /\ call.ret
    /\ EndTimes(named_buffers, OtherReader) # {}
    /\ \A e \in EndTimes(named_buffers, OtherReader) : e < routers[OtherReader].max_buffer_time

(* ================= update_drift_estimate on its own =================== *)
DriftReaders == Readers \cup {PlainReader}

InitDrift ==
    /\ routers = [r \in DriftReaders |-> ReaderRouter]
    /\ named_buffers = [b \in BufferNames \cup {"plain"} |->
                           IF b = "plain" THEN Buffer(NumericEventList(<< >>), 0)
                           ELSE InitialBuffers[b]]
    /\ sync_registry = ReaderSyncRegistry(StartReader)
    /\ trial_delimiter = TrialDelimiter(0, 0)
    /\ new_trials = << >>
    /\ trial = NoTrial
    /\ writer = << >>
    /\ pc = "loop"
    /\ call = NoCall
    /\ reads = [r \in DriftReaders |-> 0]
    /\ route_until_frame = NoFrame
    /\ stack = << >>
    /\ heap = NoHeap

(* One update_drift_estimate call of one router; returned keeps what *)
(* the call returned, None included.                                 *)
UpdateDrift(r, reference_end_time) ==
    /\ LET res == update_drift_estimate(world, r, reference_end_time)
       IN /\ SetWorld(res.w)
          /\ call' = [NoCall EXCEPT !.op = "update_drift_estimate", !.router = r,
                                    !.reference_end_time = reference_end_time,
                                    !.exc = res.exc, !.returned = res.ret]
    /\ UNCHANGED <<heap, stack, route_until_frame, trial_delimiter, new_trials, trial, writer, pc, reads>>

NextDrift ==
    \/ \E n \in Readers : \E t \in Times : RecordEvent(n, t)
    \/ \E r \in DriftReaders : \E e \in OptTimes : UpdateDrift(r, e)

SpecDrift == InitDrift /\ [][NextDrift]_vars

(* C22: when update_drift_estimate returns on a router with sync, the    *)
(* router's clock_drift and the clock_drift of each of its buffers are   *)
(* the returned value, and that is the registry's get_drift for the sync *)
(* reader name, with the reference end time given and the same end time  *)
(* on the reader's clock by the drift before the call.                   *)
C22_DriftPropagatedToBuffers ==
    [][(call'.op = "update_drift_estimate" /\ call'.router # PlainReader /\ call'.exc = "")
        => LET r == call'.router
               reference_end_time == call'.reference_end_time
               reader_end_time == IF IsNone(reference_end_time) THEN None
                                  ELSE Some(Val(reference_end_time) + routers[r].clock_drift)
               estimate == get_drift(sync_registry, sync_config(r).reader_name,
                                     reference_end_time, reader_end_time)
           IN /\ ~IsNone(call'.returned)
              /\ estimate.exc = "" /\ Val(call'.returned) = estimate.value
              /\ routers'[r].clock_drift = Val(call'.returned)
              /\ \A b \in router_buffer_names(r) :
                    named_buffers'[b].clock_drift = Val(call'.returned)]_vars

(* A drift other than 0, estimated up to a reference end time, on the *)
(* other router and its three buffers.                                *)
C22_Witness ==
    /\ call.op = "update_drift_estimate" /\ call.router = OtherReader /\ call.exc = ""
    /\ ~IsNone(call.reference_end_time)
    /\ Val(call.returned) # 0
    /\ routers[OtherReader].clock_drift = Val(call.returned)
    /\ \A b \in {"wrt", "foo", "sig"} : named_buffers[b].clock_drift = Val(call.returned)

(* C23: update_drift_estimate returns 0.0 on a router without sync. *)
C23_ZeroWithoutSync ==
    (call.op = "update_drift_estimate" /\ call.router = PlainReader)
        => (~IsNone(call.returned) /\ Val(call.returned) = 0)

(* ======================= discarding after each trial ================== *)
(* The raw times of the events or samples a buffer holds. *)
BufferTimes(buffer) ==
    IF buffer.data.kind = "events"
    THEN {buffer.data.event_data[i][1] : i \in 1..Len(buffer.data.event_data)}
    ELSE {get_times(buffer.data)[i] : i \in 1..Len(buffer.data.sample_data)}

(* C24: in the driving loop, the step after a trial of next() went to the *)
(* sink is the discard, and after it the start buffer, the wrt buffer and *)
(* every named buffer hold exactly their events or samples that are not   *)
(* earlier than that trial's start time on the buffer's own raw clock.    *)
C24_DiscardedBeforeTrialStart ==
    [][/\ pc = "append" => pc' = "discard"
       /\ pc = "discard" =>
             LET start_time == writer[Len(writer)].trial.start_time
             IN /\ call'.op = "discard_before"
                /\ \A b \in BufferNames :
                      BufferTimes(named_buffers'[b]) =
                          {t \in BufferTimes(named_buffers[b]) :
                              t >= start_time + named_buffers[b].clock_drift}]_vars

(* The first trial has gone to the sink and the discard after it, on a *)
(* drifted clock, has cut a chunk of two samples down to its later    *)
(* sample and has kept an event of the wrt buffer.                    *)
C24_Witness ==
    /\ call.op = "discard_before" /\ Len(writer) = 1
    /\ named_buffers["sig"].clock_drift # 0
    /\ Len(named_buffers["sig"].data.sample_data) = 1
    /\ named_buffers["sig"].data.first_sample_time = Some(2)
    /\ BufferTimes(named_buffers["wrt"]) # {}

(* ======================= readers are released ========================= *)
(* C25: when the with block of a run is left, at its end or by an error *)
(* raised after readers were entered, the ExitStack is emptied and no   *)
(* reader is left open; until then every reader on the stack is open.   *)
C25_ReadersReleased ==
    [][/\ \A i \in 1..Len(stack) : stack[i] \in Readers => routers[stack[i]].reader.open
       /\ pc \in {"done", "aborted"} =>
             /\ pc' = "exited" /\ stack' = << >>
             /\ \A r \in Readers : ~routers'[r].reader.open]_vars

(* A run that was left by an error raised in its loop, after both    *)
(* readers had delivered data; the delay simulator was entered and   *)
(* the reader it wraps is released.                                  *)
C25_Witness ==
    /\ pc = "exited" /\ call.exc # ""
    /\ \A r \in Readers : routers[r].max_buffer_time > 0
    /\ routers[OtherReader].reader.started
    /\ \A r \in Readers : ~routers[r].reader.open

(* ======================= enhancements added to one trial ============== *)
MaxData == 1
EnhancementNames == {"int", "string"}
Categories == {"value", "id", "my_category"}
EnhancementData == {PyInt(d) : d \in 0..MaxData} \cup {PyStr("a string!")}
AddedEvents == {NumericEventList(<< >>), NumericEventList(<<<<0, OtherValue>>>>)}

InitAdd ==
    /\ routers = [r \in Readers |-> ReaderRouter]
    /\ named_buffers = InitialBuffers
    /\ sync_registry = ReaderSyncRegistry(StartReader)
    /\ trial_delimiter = TrialDelimiter(0, 0)
    /\ new_trials = << >>
    /\ trial = NoTrial
    /\ writer = << >>
    /\ pc = "loop"
    /\ call = NoCall
    /\ reads = [r \in Readers |-> 0]
    /\ route_until_frame = NoFrame
    /\ stack = << >>
    /\ heap = NoHeap

(* trial.add_enhancement(name, data, category), with plain data or with *)
(* data of a BufferData type.                                           *)
AddEnhancement(name, data, category) ==
    /\ trial' = [trial EXCEPT !.trial = add_enhancement(@, name, data, category)]
    /\ call' = [NoCall EXCEPT !.op = "add_enhancement", !.ret = TRUE, !.name = name,
                              !.category = category, !.data = data]
    /\ UNCHANGED <<heap, stack, route_until_frame, routers, named_buffers, sync_registry, trial_delimiter,
                   new_trials, writer, pc, reads>>

NextAdd ==
    \E name \in EnhancementNames : \E data \in EnhancementData \cup AddedEvents :
        \E category \in Categories : AddEnhancement(name, data, category)

SpecAdd == InitAdd /\ [][NextAdd]_vars

(* How often a name occurs in the trial's category lists. *)
Occurrences(t, name) ==
    Cardinality({ci \in UNION {{<<c, i>> : i \in 1..Len(t.enhancement_categories[c])} :
                                  c \in DOMAIN t.enhancement_categories} :
                    t.enhancement_categories[ci[1]][ci[2]] = name})

(* C26: each enhancement name of a trial occurs exactly once across the *)
(* trial's category lists, and after add_enhancement with data that is  *)
(* no BufferData the trial holds the data just added under the name.    *)
C26_NamesUniqueAcrossCategories ==
    /\ \A name \in DOMAIN trial.trial.enhancements : Occurrences(trial.trial, name) = 1
    /\ (call.op = "add_enhancement" /\ call.data.kind \notin NumericEventListKinds \cup SignalChunkKinds)
          => trial.trial.enhancements[call.name] = call.data

(* ======================= BufferData objects and their arrays ========== *)
(* An object refers to its numpy array, and a signal chunk to its list of *)
(* channel ids, by position in heap.arrays; two objects that refer to the *)
(* same position share that array. ops counts the operations done.        *)
MaxOps == 3

BufferObject(kind, data, sample_frequency, first_sample_time, channel_ids) ==
    [kind |-> kind, data |-> data, sample_frequency |-> sample_frequency,
     first_sample_time |-> first_sample_time, first_sample_time_array |-> 0,
     channel_ids |-> channel_ids]

(* A first_sample_time that is a numpy array is in heap.arrays as well, *)
(* at first_sample_time_array, which is 0 for None and for a number.    *)
(* The BufferData value of object i. *)
Load(h, i) ==
    LET o == h.objects[i]
    IN IF o.kind = "events" THEN NumericEventList(h.arrays[o.data])
       ELSE IF o.kind = "signal"
       THEN SignalChunk(h.arrays[o.data], o.sample_frequency, o.first_sample_time)
       ELSE SignalChunkND(h.arrays[o.data].shape, h.arrays[o.data].sample_data, o.sample_frequency,
                          IF o.first_sample_time_array # 0 THEN h.arrays[o.first_sample_time_array]
                          ELSE o.first_sample_time,
                          o.first_sample_time_array # 0)

ArrayOf(value) ==
    IF value.kind = "events" THEN value.event_data
    ELSE IF value.kind = "signal" THEN value.sample_data
    ELSE [shape |-> value.shape, sample_data |-> value.sample_data]

(* The first_sample_time of value when it is None or a number. *)
FirstSampleTime(value) ==
    IF value.kind = "events" \/ IsArray(value) THEN None ELSE value.first_sample_time

(* A new object for value in a new array, with the channel ids of like; *)
(* an array of first sample times is a new array too.                   *)
NewObject(h, like, value) ==
    [h EXCEPT !.arrays = IF value.kind # "events" /\ IsArray(value)
                         THEN @ \o <<ArrayOf(value), value.first_sample_time>>
                         ELSE Append(@, ArrayOf(value)),
              !.objects = Append(@, [like EXCEPT !.kind = value.kind,
                                                 !.data = Len(h.arrays) + 1,
                                                 !.first_sample_time = FirstSampleTime(value),
                                                 !.first_sample_time_array =
                                                     IF value.kind # "events" /\ IsArray(value)
                                                     THEN Len(h.arrays) + 2 ELSE 0])]

(* Object i holds value in a new array: self.event_data = ...; an array *)
(* of first sample times is the one the object had.                     *)
Rebind(h, i, value) ==
    [h EXCEPT !.arrays = Append(@, ArrayOf(value)),
              !.objects[i].data = Len(h.arrays) + 1,
              !.objects[i].sample_frequency =
                  IF value.kind = "events" THEN @ ELSE value.sample_frequency,
              !.objects[i].first_sample_time = FirstSampleTime(value),
              !.objects[i].first_sample_time_array =
                  IF value.kind # "events" /\ IsArray(value) THEN @ ELSE 0]

(* The array of object i is written in place: self.event_data[...] += ..., *)
(* and so is its array of first sample times: self.first_sample_time += ... *)
InPlace(h, i, value) ==
    IF h.objects[i].first_sample_time_array # 0
    THEN [h EXCEPT !.arrays[h.objects[i].data] = ArrayOf(value),
                   !.arrays[h.objects[i].first_sample_time_array] = value.first_sample_time]
    ELSE [h EXCEPT !.arrays[h.objects[i].data] = ArrayOf(value),
                   !.objects[i].first_sample_time = FirstSampleTime(value)]

(* A new object with a copy of the array and with the sample_frequency, *)
(* the first_sample_time and the channel_ids of the source themselves.  *)
object_copy(h, i) ==
    [h EXCEPT !.arrays = Append(@, ArrayOf(copy(Load(h, i)))),
              !.objects = Append(@, [h.objects[i] EXCEPT !.data = Len(h.arrays) + 1])]

(* copy_time_range that hands out the array of the source when the *)
(* range takes all of it.                                          *)
object_copy_time_range_view(h, i, start_time, end_time) ==
    IF copy_time_range(Load(h, i), start_time, end_time) = Load(h, i)
    THEN [h EXCEPT !.objects = Append(@, h.objects[i])]
    ELSE NewObject(h, h.objects[i], copy_time_range(Load(h, i), start_time, end_time))

(* A call that raises makes no object and changes none. *)
object_copy_time_range(h, i, start_time, end_time) ==
    IF ExceptionOf(copy_time_range(Load(h, i), start_time, end_time)) # "" THEN h
    ELSE NewObject(h, h.objects[i], copy_time_range(Load(h, i), start_time, end_time))

(* A chunk without first_sample_time takes that of the other chunk, *)
(* the same array when it is an array.                              *)
object_append(h, i, j) ==
    IF ExceptionOf(append(Load(h, i), Load(h, j))) # "" THEN h
    ELSE IF /\ h.objects[i].kind # "events"
            /\ IsNone(h.objects[i].first_sample_time) /\ h.objects[i].first_sample_time_array = 0
    THEN [Rebind(h, i, append(Load(h, i), Load(h, j)))
             EXCEPT !.objects[i].first_sample_time_array = h.objects[j].first_sample_time_array]
    ELSE Rebind(h, i, append(Load(h, i), Load(h, j)))

object_discard_before(h, i, start_time) ==
    IF ExceptionOf(discard_before(Load(h, i), start_time)) # "" THEN h
    ELSE Rebind(h, i, discard_before(Load(h, i), start_time))

object_shift_times(h, i, shift) ==
    IF h.objects[i].kind # "events" \/ Len(h.arrays[h.objects[i].data]) > 0
    THEN InPlace(h, i, shift_times(Load(h, i), shift))
    ELSE h

object_apply_offset_then_gain(h, i, offset, gain) ==
    InPlace(h, i, apply_offset_then_gain(Load(h, i), offset, gain))

(* route_next for the data of one read and its routes: each buffer gets *)
(* data.copy() appended; the copy is dropped afterwards.                *)
RECURSIVE object_route(_, _, _)
object_route(h, i, buffers) ==
    IF buffers = << >> THEN h
    ELSE LET copied == object_copy(h, i)
             appended == object_append(copied, Head(buffers), Len(copied.objects))
         IN object_route([appended EXCEPT !.objects = SubSeq(@, 1, Len(h.objects))], i, Tail(buffers))

(* What a reader returned and two buffers made for it, of one kind. *)
ChannelIds == << "ch" >>
CopyEvents == {<<<<1, 0>>, <<2, 10>>>>, <<<<2, 20>>>>}
CopySamples == {<<0, 10>>, <<20>>}
InitialHeaps ==
    {[arrays |-> <<rows, << >>, << >>>>,
      objects |-> [i \in 1..3 |-> BufferObject("events", i, None, None, 0)],
      ops |-> 0] : rows \in CopyEvents}
    \cup {[arrays |-> <<samples, << >>, << >>, ChannelIds>>,
           objects |-> [i \in 1..3 |-> BufferObject("signal", i,
                                                    IF i = 3 THEN None ELSE Some(SampleFrequency),
                                                    IF i = 1 THEN Some(1) ELSE None, 4)],
           ops |-> 0] : samples \in CopySamples}

InitCopy ==
    /\ routers = [r \in Readers |-> ReaderRouter]
    /\ named_buffers = InitialBuffers
    /\ sync_registry = ReaderSyncRegistry(StartReader)
    /\ trial_delimiter = TrialDelimiter(0, 0)
    /\ new_trials = << >>
    /\ trial = NoTrial
    /\ writer = << >>
    /\ pc = "loop"
    /\ call = NoCall
    /\ reads = [r \in Readers |-> 0]
    /\ route_until_frame = NoFrame
    /\ stack = << >>
    /\ heap \in InitialHeaps

(* One operation on the objects: op and object say which and on what, *)
(* others the further objects it was given, exc what it raised.       *)
Operate(op, i, others, h, exc) ==
    /\ heap.ops < MaxOps
    /\ heap' = [h EXCEPT !.ops = @ + 1]
    /\ call' = [NoCall EXCEPT !.op = op, !.object = i, !.others = others, !.exc = exc]
    /\ UNCHANGED <<stack, route_until_frame, routers, named_buffers, sync_registry, trial_delimiter,
                   new_trials, trial, writer, pc, reads>>

Objects == 1..Len(heap.objects)
CopyTimes == {1, 2}
CopyRanges == {<<None, Some(t)>> : t \in CopyTimes} \cup {<<Some(t), None>> : t \in CopyTimes}
                  \cup {<<Some(1), Some(2)>>, <<None, None>>}

CopyObject(i) == Operate("copy", i, {}, object_copy(heap, i), "")
CopyTimeRange(i, range) ==
    Operate("copy_time_range", i, {}, object_copy_time_range(heap, i, range[1], range[2]),
            ExceptionOf(copy_time_range(Load(heap, i), range[1], range[2])))
AppendObject(i, j) ==
    Operate("append", i, {j}, object_append(heap, i, j),
            ExceptionOf(append(Load(heap, i), Load(heap, j))))
DiscardBeforeObject(i, t) ==
    Operate("discard_before", i, {}, object_discard_before(heap, i, t),
            ExceptionOf(discard_before(Load(heap, i), t)))
ShiftTimes(i) == Operate("shift_times", i, {}, object_shift_times(heap, i, 1), "")
ApplyOffsetThenGain(i) ==
    Operate("apply_offset_then_gain", i, {}, object_apply_offset_then_gain(heap, i, Offset, Gain), "")
(* Objects 2 and 3 are the buffers; what is routed is any other object, *)
(* and a buffer whose append raises is passed over.                     *)
BufferObjects == << 2, 3 >>
RouteObject(i) == Operate("route_next", i, {2, 3}, object_route(heap, i, BufferObjects), "")

NextCopy ==
    \/ \E i \in Objects : CopyObject(i)
    \/ \E i \in Objects : \E range \in CopyRanges : CopyTimeRange(i, range)
    \/ \E i \in Objects : \E j \in Objects : AppendObject(i, j)
    \/ \E i \in Objects : \E t \in CopyTimes : DiscardBeforeObject(i, t)
    \/ \E i \in Objects : ShiftTimes(i)
    \/ \E i \in Objects : ApplyOffsetThenGain(i)
    \/ \E i \in Objects \ {2, 3} : RouteObject(i)

SpecCopy == InitCopy /\ [][NextCopy]_vars

(* What can be observed of object i: its data and its channel ids. *)
View(h, i) ==
    [value |-> Load(h, i),
     channel_ids |-> IF h.objects[i].kind = "events" THEN << >> ELSE h.arrays[h.objects[i].channel_ids]]

(* C27: copy() and copy_time_range() leave every object there was as it *)
(* was and make one more object, unless copy_time_range() raises; an    *)
(* in-place operation on one object (append, discard_before,            *)
(* shift_times, apply_offset_then_gain) leaves every other object as it *)
(* was, copies and their sources included; and routing one read changes *)
(* the buffers routed to alike and nothing else, also after one of      *)
(* these buffers was changed in place.                                  *)
C27_CopiesAreIndependent ==
    [][call'.op \in {"copy", "copy_time_range", "append", "discard_before", "shift_times",
                     "apply_offset_then_gain", "route_next"} =>
          LET before == 1..Len(heap.objects)
              written == IF call'.op \in {"copy", "copy_time_range"} THEN {}
                         ELSE IF call'.op = "route_next" THEN call'.others
                         ELSE {call'.object}
          IN /\ \A i \in before \ written : View(heap', i) = View(heap, i)
             /\ call'.op = "copy" =>
                   /\ Len(heap'.objects) = Len(heap.objects) + 1
                   /\ View(heap', Len(heap'.objects)) = View(heap, call'.object)
             /\ (call'.op = "copy_time_range" /\ call'.exc = "") =>
                   Len(heap'.objects) = Len(heap.objects) + 1
             /\ (call'.op = "route_next" /\ heap.objects[call'.object].kind # "signal_nd") =>
                   \A b \in call'.others :
                      ArrayOf(Load(heap', b)) = ArrayOf(Load(heap, b)) \o ArrayOf(Load(heap, call'.object))]_vars

(* ======================= splitting data at a time ===================== *)
MaxLen == 3

(* Event lists of up to MaxLen rows, in any order of time; the value of a *)
(* row is its place in the list. Signal chunks of up to MaxLen samples.   *)
SplitEvents ==
    UNION {{[i \in 1..n |-> <<times[i], i>>] : times \in [1..n -> Times]} : n \in 0..MaxLen}
SplitSamples == {[i \in 1..n |-> i] : n \in 0..MaxLen}
SplitHeaps ==
    {[arrays |-> <<rows>>, objects |-> <<BufferObject("events", 1, None, None, 0)>>,
      ops |-> 0] : rows \in SplitEvents}
    \cup {[arrays |-> <<samples, ChannelIds>>,
           objects |-> <<BufferObject("signal", 1, Some(SampleFrequency),
                                      IF samples = << >> THEN None ELSE Some(first), 2)>>,
           ops |-> 0] : samples \in SplitSamples, first \in 0..1}

InitSplit ==
    /\ routers = [r \in Readers |-> ReaderRouter]
    /\ named_buffers = InitialBuffers
    /\ sync_registry = ReaderSyncRegistry(StartReader)
    /\ trial_delimiter = TrialDelimiter(0, 0)
    /\ new_trials = << >>
    /\ trial = NoTrial
    /\ writer = << >>
    /\ pc = "loop"
    /\ call = NoCall
    /\ reads = [r \in Readers |-> 0]
    /\ route_until_frame = NoFrame
    /\ stack = << >>
    /\ heap \in SplitHeaps

(* first = data.copy_time_range(None, t); second = data.copy_time_range(t, None); *)
(* joined = first.copy(); joined.append(second): objects 2, 3 and 4.               *)
Split(t) ==
    /\ heap.ops = 0
    /\ LET first == object_copy_time_range(heap, 1, None, Some(t))
           second == object_copy_time_range(first, 1, Some(t), None)
           joined == object_append(object_copy(second, 2), 4, 3)
       IN heap' = [joined EXCEPT !.ops = 1]
    /\ call' = [NoCall EXCEPT !.op = "split", !.object = 1, !.time = t]
    /\ UNCHANGED <<stack, route_until_frame, routers, named_buffers, sync_registry, trial_delimiter,
                   new_trials, trial, writer, pc, reads>>

NextSplit == \E t \in Times : Split(t)

SpecSplit == InitSplit /\ [][NextSplit]_vars

(* The rows of an event list, the samples of a chunk with their times. *)
Contents(value) ==
    IF value.kind = "events" THEN value.event_data
    ELSE [i \in 1..Len(value.sample_data) |-> <<get_times(value)[i], value.sample_data[i]>>]

InTimeOrder(rows) == \A i \in 1..Len(rows) : \A j \in i..Len(rows) : rows[i][1] <= rows[j][1]

Before(rows, t) == SelectSeq(rows, LAMBDA row : row[1] < t)
NotBefore(rows, t) == SelectSeq(rows, LAMBDA row : row[1] >= t)

(* C28 as stated: the copy up to t holds the rows before t, the copy from *)
(* t on holds the others, and the first with the second appended is the   *)
(* data that was split.                                                    *)
C28_JoinedIsOriginal ==
    call.op = "split" =>
        /\ Contents(Load(heap, 2)) = Before(Contents(Load(heap, 1)), call.time)
        /\ Contents(Load(heap, 3)) = NotBefore(Contents(Load(heap, 1)), call.time)
        /\ Contents(Load(heap, 4)) = Contents(Load(heap, 1))

(* C28: every row or sample of the data is in exactly one of the copies, *)
(* in the first when its time is before t and in the second otherwise,   *)
(* in the order it had; the first with the second appended holds the     *)
(* rows of the first and then those of the second, which is the data     *)
(* that was split when these were in time order, as samples always are.  *)
C28_SplitPartitions ==
    call.op = "split" =>
        LET original == Contents(Load(heap, 1))
            first == Contents(Load(heap, 2))
            second == Contents(Load(heap, 3))
            joined == Contents(Load(heap, 4))
        IN /\ first = Before(original, call.time)
           /\ second = NotBefore(original, call.time)
           /\ joined = first \o second
           /\ InTimeOrder(original) => joined = original
           /\ heap.objects[1].kind = "signal" => InTimeOrder(original)

(* Events out of time order were split into two copies that are not *)
(* empty, and joined they are in time order.                        *)
C28_Witness ==
    /\ call.op = "split" /\ heap.objects[1].kind = "events"
    /\ ~InTimeOrder(Contents(Load(heap, 1)))
    /\ Contents(Load(heap, 2)) # << >> /\ Contents(Load(heap, 3)) # << >>
    /\ InTimeOrder(Contents(Load(heap, 4)))

(* ======================= discarding twice ============================= *)
(* Two objects with the same data, each in an array of its own. *)
TwinHeaps ==
    {[h EXCEPT !.arrays = Append(@, h.arrays[1]),
               !.objects = Append(@, [h.objects[1] EXCEPT !.data = Len(h.arrays) + 1])] :
        h \in SplitHeaps}

InitTwice ==
    /\ routers = [r \in Readers |-> ReaderRouter]
    /\ named_buffers = InitialBuffers
    /\ sync_registry = ReaderSyncRegistry(StartReader)
    /\ trial_delimiter = TrialDelimiter(0, 0)
    /\ new_trials = << >>
    /\ trial = NoTrial
    /\ writer = << >>
    /\ pc = "loop"
    /\ call = NoCall
    /\ reads = [r \in Readers |-> 0]
    /\ route_until_frame = NoFrame
    /\ stack = << >>
    /\ heap \in TwinHeaps

(* once.discard_before(t); twice.discard_before(t); twice.discard_before(t) *)
DiscardTwice(t) ==
    /\ heap.ops = 0
    /\ LET once == object_discard_before(heap, 1, t)
           twice == object_discard_before(object_discard_before(once, 2, t), 2, t)
       IN heap' = [twice EXCEPT !.ops = 1]
    /\ call' = [NoCall EXCEPT !.op = "discard_before", !.object = 2, !.time = t]
    /\ UNCHANGED <<stack, route_until_frame, routers, named_buffers, sync_registry, trial_delimiter,
                   new_trials, trial, writer, pc, reads>>

NextTwice == \E t \in Times : DiscardTwice(t)

SpecTwice == InitTwice /\ [][NextTwice]_vars

(* C29: data that discard_before(t) was called on twice are the same, *)
(* first_sample_time included, as the same data after one call.       *)
C29_DiscardBeforeIdempotent ==
    call.op = "discard_before" => Load(heap, 2) = Load(heap, 1)

(* A chunk of samples that two calls cut down to its samples from t on, *)
(* with the first of these at t.                                        *)
C29_Witness ==
    /\ call.op = "discard_before" /\ heap.objects[2].kind = "signal"
    /\ Load(heap, 2).first_sample_time = Some(call.time)
    /\ Len(Load(heap, 2).sample_data) > 0
    /\ Len(Load(heap, 2).sample_data) < Len(heap.arrays[1])

(* ======================= the sample at a time ========================= *)
ZeroSamples == UNION {[1..n -> {0, 10}] : n \in 0..MaxLen}
ZeroHeaps ==
    {[arrays |-> <<samples, ChannelIds>>,
      objects |-> <<BufferObject("signal", 1, Some(SampleFrequency),
                                 IF samples = << >> THEN None ELSE Some(first), 2)>>,
      ops |-> 0] : samples \in ZeroSamples, first \in 0..1}

InitZero ==
    /\ routers = [r \in Readers |-> ReaderRouter]
    /\ named_buffers = InitialBuffers
    /\ sync_registry = ReaderSyncRegistry(StartReader)
    /\ trial_delimiter = TrialDelimiter(0, 0)
    /\ new_trials = << >>
    /\ trial = NoTrial
    /\ writer = << >>
    /\ pc = "loop"
    /\ call = NoCall
    /\ reads = [r \in Readers |-> 0]
    /\ route_until_frame = NoFrame
    /\ stack = << >>
    /\ heap \in ZeroHeaps

(* signal_chunk.copy_time_range(t, t): the chunk returned is object 2; *)
(* when the call raises there is none.                                 *)
CopyZeroWidth(t) ==
    /\ heap.ops = 0
    /\ LET range_chunk == copy_time_range(Load(heap, 1), Some(t), Some(t))
       IN IF range_chunk.kind = "TypeError"
          THEN /\ heap' = [heap EXCEPT !.ops = 1]
               /\ call' = [NoCall EXCEPT !.op = "copy_time_range", !.object = 1, !.time = t,
                                         !.exc = "TypeError"]
          ELSE /\ heap' = [NewObject(heap, heap.objects[1], range_chunk) EXCEPT !.ops = 1]
               /\ call' = [NoCall EXCEPT !.op = "copy_time_range", !.object = 1, !.time = t]
    /\ UNCHANGED <<stack, route_until_frame, routers, named_buffers, sync_registry, trial_delimiter,
                   new_trials, trial, writer, pc, reads>>

NextZero == \E t \in Times : CopyZeroWidth(t)

SpecZero == InitZero /\ [][NextZero]_vars

(* C30: copy_time_range(t, t) of a signal chunk returns a chunk of one *)
(* sample, the first sample of the chunk at or after t.                *)
C30_ZeroWidthIsOneSample ==
    call.op = "copy_time_range" =>
        /\ call.exc = ""
        /\ Len(heap.objects) = 2
        /\ LET original == Contents(Load(heap, 1))
               range_chunk == Contents(Load(heap, 2))
           IN /\ Len(range_chunk) = 1
              /\ \E i \in 1..Len(original) :
                    /\ range_chunk[1] = original[i]
                    /\ original[i][1] >= call.time
                    /\ \A j \in 1..(i - 1) : original[j][1] < call.time

(* ======================= the order of the steps for a trial =========== *)
(* C31: for the trial at the head of new_trials, the start router and    *)
(* then the other router run route_until, then the drift estimates are   *)
(* refreshed (a raise there ends the run), then the trial is populated,  *)
(* then that trial is appended to the sink, and then comes the discard   *)
(* with its start time; a buffer loses data only in that discard, when   *)
(* the sink already holds the trial.                                     *)
C31_StepsInOrder ==
    [][/\ pc = "catch_up_start" =>
             pc' = "catch_up_other" /\ call'.op = "route_until" /\ call'.router = StartReader
       /\ pc = "catch_up_other" =>
             pc' = "drift" /\ call'.op = "route_until" /\ call'.router = OtherReader
       /\ pc = "drift" =>
             call'.op = "update_drift_estimate" /\ pc' = IF call'.exc = "" THEN "populate" ELSE "aborted"
       /\ pc = "populate" =>
             /\ pc' = "append" /\ call'.op = "populate_trial"
             /\ trial'.trial_number = Head(new_trials).trial_number
       /\ pc = "append" =>
             /\ pc' = "discard" /\ call'.op = "append_trial"
             /\ writer' = Append(writer, [trial_number |-> Head(new_trials).trial_number,
                                          trial |-> trial.trial])
       /\ pc = "discard" =>
             /\ call'.op = "discard_before" /\ call'.time = Head(new_trials).trial.start_time
             /\ pc' \in {"loop", "catch_up_start"}
       /\ (\E b \in BufferNames : ~(BufferTimes(named_buffers[b]) \subseteq BufferTimes(named_buffers'[b])))
             => /\ call'.op = "discard_before"
                /\ writer # << >>
                /\ writer[Len(writer)].trial_number = Head(new_trials).trial_number
                /\ writer[Len(writer)].trial.start_time = call'.time]_vars

(* The second trial of a run has been through all the steps: the sink  *)
(* holds two trials, both readers have delivered data and after the    *)
(* discard a buffer holds data, all of it from the trial's start on.   *)
C31_Witness ==
    /\ call.op = "discard_before" /\ Len(writer) = 2
    /\ writer[2].trial.start_time = call.time /\ call.time > 0
    /\ \A r \in Readers : routers[r].max_buffer_time > 0
    /\ \E b \in BufferNames :
          BufferTimes(named_buffers[b]) # {} /\ \A t \in BufferTimes(named_buffers[b]) : t >= call.time

(* ======================= two candidates of one magnitude ============== *)
(* The first of the offsets that are nearest to zero. *)
FirstNearest(offsets) ==
    offsets[CHOOSE i \in 1..Len(offsets) :
                /\ \A j \in 1..Len(offsets) : Abs(offsets[i]) <= Abs(offsets[j])
                /\ \A j \in 1..(i - 1) : Abs(offsets[j]) > Abs(offsets[i])]

(* The two candidates of the get_drift call that ran last. *)
DriftFromReader ==
    LET reference == Qualifying(StartReader, call.reference_end_time)
        reader == Qualifying(call.router, call.reader_end_time)
    IN FirstNearest([i \in 1..Len(reference) |-> reader[Len(reader)] - reference[i]])

DriftFromReference ==
    LET reference == Qualifying(StartReader, call.reference_end_time)
        reader == Qualifying(call.router, call.reader_end_time)
    IN FirstNearest([i \in 1..Len(reader) |-> reader[i] - reference[Len(reference)]])

(* The get_drift call that ran last had two candidates, of one magnitude *)
(* and of opposite signs.                                                *)
OppositeCandidates ==
    /\ call.op = "get_drift" /\ call.exc = ""
    /\ Qualifying(StartReader, call.reference_end_time) # << >>
    /\ Qualifying(call.router, call.reader_end_time) # << >>
    /\ DriftFromReader # 0
    /\ DriftFromReader = -DriftFromReference

(* C32: when the two candidates of get_drift are of one magnitude and of *)
(* opposite signs, the call returns drift_from_reader.                   *)
C32_TieGoesToDriftFromReader == OppositeCandidates => call.time = DriftFromReader

(* A call whose candidates were opposite and that returned the one from *)
(* the reader, here the negative one.                                   *)
C32_Witness == OppositeCandidates /\ call.time = DriftFromReader /\ call.time < 0

(* ======================= a disabled router stays disabled ============= *)
(* C33: in a run, once still_going() of a router is False it stays False *)
(* with the same reader_exception, and no step, route_next or            *)
(* route_until included, makes a further read_next call of its reader.   *)
C33_DisabledReaderIsNotReadAgain ==
    [][\A r \in Readers :
          ~still_going(routers[r]) =>
              /\ ~still_going(routers'[r])
              /\ routers'[r].reader_exception = routers[r].reader_exception
              /\ reads'[r] = reads[r]]_vars

(* After the loop, route_next of the other router, disabled during the *)
(* loop of a run that wrote a trial, returned False without a read.     *)
C33_Witness ==
    /\ pc = "final_drift" /\ call.op = "route_next" /\ call.router = OtherReader
    /\ call.read = "" /\ ~call.ret
    /\ ~still_going(routers[OtherReader])
    /\ reads[OtherReader] >= 1 /\ Len(writer) >= 1

(* ======================= the high water mark only rises =============== *)
(* C34: no step of a run, be it route_next, route_until, the refresh of *)
(* the drift estimates or a discard, lowers a router's max_buffer_time. *)
C34_MaxBufferTimeNeverDecreases ==
    [][\A r \in Readers : routers'[r].max_buffer_time >= routers[r].max_buffer_time]_vars

(* After reads by both routers, a drift estimate other than 0 and the *)
(* discard for a trial, the other router's mark is above the end time *)
(* of one of its buffers that holds data.                             *)
C34_Witness ==
    /\ call.op = "discard_before"
    /\ routers[OtherReader].clock_drift # 0
    /\ routers[StartReader].max_buffer_time > 0
    /\ \E e \in EndTimes(named_buffers, OtherReader) : e < routers[OtherReader].max_buffer_time

(* ================= the delimiter while the start drift moves ========== *)
(* The start reader is not the reference reader here: the registry's    *)
(* reference is the other reader, so update_drift_estimate of the start *)
(* router gives the start buffer a drift that follows the sync events.  *)
InitTile ==
    /\ routers = [r \in Readers |-> ReaderRouter]
    /\ named_buffers = InitialBuffers
    /\ sync_registry = ReaderSyncRegistry(OtherReader)
    /\ trial_delimiter = TrialDelimiter(0, 0)
    /\ new_trials = << >>
    /\ trial = NoTrial
    /\ writer = << >>
    /\ pc = "loop"
    /\ call = NoCall
    /\ reads = [r \in Readers |-> 0]
    /\ route_until_frame = NoFrame
    /\ stack = << >>
    /\ heap = NoHeap

(* Whether last() has made its trial: the run is over then. *)
LastEmitted == \E i \in 1..Len(writer) : IsNone(writer[i].trial.end_time)

(* next(); writer keeps every trial the delimiter made, in order. *)
TileNext ==
    /\ ~LastEmitted
    /\ LET res == next(trial_delimiter, named_buffers["start"])
       IN /\ trial_delimiter' = res.self
          /\ new_trials' = res.trials
          /\ writer' = writer \o res.trials
    /\ call' = [NoCall EXCEPT !.op = "next"]
    /\ UNCHANGED <<heap, stack, route_until_frame, routers, named_buffers, sync_registry, trial, pc, reads>>

TileLast ==
    /\ ~LastEmitted
    /\ LET res == last(trial_delimiter, named_buffers["start"])
           made == << [trial_number |-> res.trial_number, trial |-> res.trial] >>
       IN /\ trial_delimiter' = res.self
          /\ new_trials' = made
          /\ writer' = writer \o made
    /\ call' = [NoCall EXCEPT !.op = "last"]
    /\ UNCHANGED <<heap, stack, route_until_frame, routers, named_buffers, sync_registry, trial, pc, reads>>

MaxTileReads == 2
MaxTileEvents == 2

TileRecorded ==
    Len(sync_registry.event_times[StartReader]) + Len(sync_registry.event_times[OtherReader])

NextTile ==
    \/ \E result \in DelimResults :
          ~LastEmitted /\ reads[StartReader] < MaxTileReads /\ FeedStart(result)
    \/ \E n \in Readers : \E t \in Times :
          ~LastEmitted /\ TileRecorded < MaxTileEvents /\ RecordEvent(n, t)
    \/ \E e \in OptTimes : ~LastEmitted /\ UpdateDrift(StartReader, e)
    \/ TileNext
    \/ TileLast

SpecTile == InitTile /\ [][NextTile]_vars

(* C36: every trial the delimiter makes, by next() or by last(), starts  *)
(* at the end time of the trial it made just before, whatever drift     *)
(* updates of the start buffer come between the calls.                  *)
C36_TrialsTile ==
    \A i \in 2..Len(writer) :
        writer[i].trial.start_time = Val(writer[i - 1].trial.end_time)

(* ================= successive trials and a moving drift =============== *)
MaxOverlapReads == 2
MaxOverlapEvents == 2

OverlapResults ==
    {[n \in {"wrt"} |-> NumericEventList(<<row>>)] : row \in Rows({SyncValue})}
    \cup {[n \in {"foo"} |-> NumericEventList(<<row>>)] : row \in Rows({OtherValue})}
    \cup {[n \in {"sig"} |-> SignalChunk(<<7, 8>>, Some(SampleFrequency), Some(1))]}

(* The end time of the trial made before: the next trial starts there. *)
PreviousEnd == IF writer = << >> THEN 0 ELSE Val(writer[Len(writer)].trial.end_time)

BetweenTrials == pc = "loop" /\ call.op \notin {"update_drift_estimate", "populate_trial"}

(* The loop's step for a new trial [PreviousEnd, end_time): every router *)
(* refreshes its drift estimate for the trial's end time, the start      *)
(* router first; a raise ends the run at the router that raised.         *)
OverlapDrift(end_time) ==
    /\ BetweenTrials
    /\ end_time > PreviousEnd
    /\ LET first == update_drift_estimate(world, StartReader, Some(end_time))
           second == update_drift_estimate(first.w, OtherReader, Some(end_time))
       IN IF first.exc # ""
          THEN /\ UNCHANGED <<routers, named_buffers, sync_registry>>
               /\ call' = [NoCall EXCEPT !.op = "update_drift_estimate", !.router = StartReader,
                                         !.reference_end_time = Some(end_time),
                                         !.exc = first.exc, !.returned = first.ret]
               /\ pc' = "aborted"
          ELSE /\ SetWorld(second.w)
               /\ call' = [NoCall EXCEPT !.op = "update_drift_estimate", !.router = OtherReader,
                                         !.reference_end_time = Some(end_time),
                                         !.exc = second.exc, !.returned = second.ret]
               /\ pc' = IF second.exc # "" THEN "aborted" ELSE pc
    /\ trial' = [trial_number |-> Len(writer), trial |-> Trial(PreviousEnd, Some(end_time))]
    /\ UNCHANGED <<heap, stack, route_until_frame, trial_delimiter, new_trials, writer, reads>>

(* The raw times of the data populate_trial copies from a buffer for a trial. *)
CopiedTimes(buffer, new_trial) ==
    BufferTimes([data |-> copy_time_range(buffer.data,
                                          reference_time_to_raw(buffer, Some(new_trial.start_time)),
                                          reference_time_to_raw(buffer, new_trial.end_time))])

(* populate_trial and the sink; writer keeps, with every trial, the raw *)
(* times of the data each named buffer gave to it.                     *)
OverlapPopulate ==
    /\ pc = "loop" /\ call.op = "update_drift_estimate"
    /\ LET res == populate_trial(trial.trial, trial.trial_number, named_buffers, LoopEnhancers)
       IN /\ trial' = [trial EXCEPT !.trial = res.trial]
          /\ writer' = Append(writer,
                 [trial_number |-> trial.trial_number, trial |-> res.trial,
                  copied |-> [b \in {"foo", "sig"} |-> CopiedTimes(named_buffers[b], trial.trial)]])
    /\ call' = [NoCall EXCEPT !.op = "populate_trial"]
    /\ UNCHANGED <<heap, stack, route_until_frame, routers, named_buffers, sync_registry, trial_delimiter, new_trials, pc, reads>>

OverlapRecorded ==
    Len(sync_registry.event_times[StartReader]) + Len(sync_registry.event_times[OtherReader])

NextOverlap ==
    \/ \E result \in OverlapResults :
          BetweenTrials /\ OverlapRecorded < MaxOverlapEvents /\ FeedOther(result, MaxOverlapReads)
    \/ \E t \in Times :
          BetweenTrials /\ OverlapRecorded < MaxOverlapEvents /\ RecordEvent(StartReader, t)
    \/ \E end_time \in Times : OverlapDrift(end_time)
    \/ OverlapPopulate
    \/ pc = "loop" /\ ExtractDiscard

SpecOverlap == InitProgram /\ [][NextOverlap]_vars

(* C35: no event or sample of a named buffer goes to two trials of a run: *)
(* the raw times a buffer gave to one trial are not among those it gives  *)
(* to a later trial, also when its drift estimate moved in between.       *)
C35_NoDataInTwoTrials ==
    \A i \in 1..Len(writer) : \A j \in 1..Len(writer) :
        i < j => \A b \in {"foo", "sig"} : writer[i].copied[b] \cap writer[j].copied[b] = {}

(* ================= one trial per start event, and the last one ======== *)
(* The times of the start-value events a step appended to the start buffer. *)
StartTimesRead ==
    LET before == named_buffers["start"].data.event_data
        after == named_buffers'["start"].data.event_data
        appended == SubSeq(after, Len(before) + 1, Len(after))
        started == SelectSeq(appended, LAMBDA row : row[2] = StartValue)
    IN [i \in 1..Len(started) |-> started[i][1]]

(* Times in strictly ascending order, all later than t. *)
AscendingAfter(t, times) ==
    \A i \in 1..Len(times) : times[i] > (IF i = 1 THEN t ELSE times[i - 1])

(* The sink holds trials 0, 1, ... in order, the last one open-ended and *)
(* no other, as many as the delimiter counted.                          *)
SinkComplete(sink, delimiter) ==
    /\ Len(sink) = delimiter.trial_count
    /\ Len(sink) >= 1
    /\ \A i \in 1..Len(sink) :
          /\ sink[i].trial_number = i - 1
          /\ IsNone(sink[i].trial.end_time) <=> i = Len(sink)

(* C37: in a run without plots, with start events read in ascending time *)
(* order, each poll of the start reader makes one trial per start event  *)
(* it read, numbered on from the trials made before and ending at the    *)
(* event's time; back at the poll every trial made so far is in the      *)
(* sink; and when the run ends, the sink holds these trials and one last *)
(* open-ended trial, in trial-number order with no number skipped or     *)
(* repeated.                                                             *)
C37_OneTrialPerStartEvent ==
    [][~WithPlots =>
       /\ (pc = "loop" /\ call'.op = "route_next" /\ call'.router = StartReader
             /\ AscendingAfter(trial_delimiter.start_time, StartTimesRead))
          => /\ trial_delimiter'.trial_count = trial_delimiter.trial_count + Len(StartTimesRead)
             /\ StartTimesRead # << >> =>
                   /\ Len(new_trials') = Len(StartTimesRead)
                   /\ \A i \in 1..Len(StartTimesRead) :
                         /\ new_trials'[i].trial_number = Len(writer) + i - 1
                         /\ new_trials'[i].trial.end_time =
                               Some(StartTimesRead[i] - named_buffers'["start"].clock_drift)
       /\ pc' = "loop" => Len(writer') = trial_delimiter'.trial_count
       /\ (pc \notin {"enter", "done", "aborted", "exited"} /\ pc' \in {"done", "aborted"})
          => SinkComplete(writer', trial_delimiter')]_vars

(* ================= populate_trial and the buffers' arrays ============= *)
MaxPopulates == 2

(* The data of the wrt buffer and of the named buffers foo and sig are *)
(* objects 1, 2 and 3; named_buffers keeps the buffers' clock_drift.   *)
PopulateNames == << "foo", "sig" >>
ObjectOf(name) == IF name = "wrt" THEN 1 ELSE IF name = "foo" THEN 2 ELSE 3

PopulateHeaps ==
    {[arrays |-> <<wrt, foo, sig, ChannelIds>>,
      objects |-> [i \in 1..3 |->
                      IF i = 3 THEN BufferObject("signal", 3, Some(SampleFrequency), Some(first), 4)
                      ELSE BufferObject("events", i, None, None, 0)],
      ops |-> 0] :
        wrt \in {<< >>, <<<<1, WrtValue>>>>, <<<<2, WrtValue>>, <<1, WrtValue>>>>},
        foo \in CopyEvents, sig \in CopySamples, first \in 0..1}

InitPopulate ==
    /\ \E drift \in Drifts :
          /\ routers = [r \in Readers |->
                           [ReaderRouter EXCEPT !.clock_drift = IF r = StartReader THEN 0 ELSE drift]]
          /\ named_buffers = [b \in BufferNames |->
                                 [InitialBuffers[b] EXCEPT !.clock_drift = IF b = "start" THEN 0 ELSE drift]]
    /\ sync_registry = ReaderSyncRegistry(StartReader)
    /\ trial_delimiter = TrialDelimiter(0, 0)
    /\ new_trials = << >>
    /\ trial = NoTrial
    /\ writer = << >>
    /\ pc = "loop"
    /\ call = NoCall
    /\ reads = [r \in Readers |-> 0]
    /\ route_until_frame = NoFrame
    /\ stack = << >>
    /\ heap \in PopulateHeaps

(* The loop over the named buffers: data = buffer.data.copy_time_range(...), *)
(* data.shift_times(-raw_wrt_time); the new objects are the trial's data.    *)
RECURSIVE object_populate_buffers(_, _, _, _)
object_populate_buffers(h, new_trial, buffers, names) ==
    IF names = << >> THEN h
    ELSE LET buffer == buffers[Head(names)]
             copied == object_copy_time_range(h, ObjectOf(Head(names)),
                                              reference_time_to_raw(buffer, Some(new_trial.start_time)),
                                              reference_time_to_raw(buffer, new_trial.end_time))
             raw_wrt_time == Val(reference_time_to_raw(buffer, Some(new_trial.wrt_time)))
         IN object_populate_buffers(object_shift_times(copied, Len(copied.objects), -raw_wrt_time),
                                    new_trial, buffers, Tail(names))

(* populate_trial on the objects; trial keeps the trial with its wrt_time, *)
(* the trial's data are the objects made by the call.                      *)
PopulateObjects(new_trial) ==
    /\ heap.ops < MaxPopulates
    /\ LET wrt_buffer == named_buffers["wrt"]
           trial_wrt_times == get_times_of(Load(heap, ObjectOf("wrt")), WrtValue,
                                           reference_time_to_raw(wrt_buffer, Some(new_trial.start_time)),
                                           reference_time_to_raw(wrt_buffer, new_trial.end_time))
           with_wrt == [new_trial EXCEPT !.wrt_time =
                           IF Len(trial_wrt_times) > 0
                           THEN raw_time_to_reference(wrt_buffer, SeqMin(trial_wrt_times))
                           ELSE 0]
           populated == object_populate_buffers(heap, with_wrt, named_buffers, PopulateNames)
       IN /\ heap' = [populated EXCEPT !.ops = @ + 1]
          /\ trial' = [trial_number |-> heap.ops, trial |-> with_wrt]
          /\ call' = [NoCall EXCEPT !.op = "populate_trial", !.object = Len(heap.objects) + 1]
    /\ UNCHANGED <<stack, route_until_frame, routers, named_buffers, sync_registry, trial_delimiter,
                   new_trials, writer, pc, reads>>

NextPopulate == \E new_trial \in Windows : PopulateObjects(new_trial)

SpecPopulate == InitPopulate /\ [][NextPopulate]_vars

(* C38: populate_trial leaves the data of the wrt buffer and of every *)
(* named buffer exactly as they were, and the buffers' drift as well; *)
(* what it attaches to the trial are new objects, one per named       *)
(* buffer.                                                            *)
C38_PopulateLeavesBuffers ==
    [][call'.op = "populate_trial" =>
          /\ \A i \in 1..3 : View(heap', i) = View(heap, i)
          /\ named_buffers' = named_buffers
          /\ Len(heap'.objects) = Len(heap.objects) + Len(PopulateNames)]_vars

(* A trial took all the events of foo, shifted by a wrt time other than *)
(* 0, and foo still holds them at their raw times.                      *)
C38_Witness ==
    /\ call.op = "populate_trial" /\ call.object = 4
    /\ trial.trial.wrt_time # 0
    /\ Len(Load(heap, 4).event_data) = Len(Load(heap, 2).event_data)
    /\ Load(heap, 4) # Load(heap, 2)
    /\ heap.arrays[2] \in CopyEvents

(* ================= delay_simulator.py: DelaySimulatorReader =========== *)
(* reader is what the wrapped reader has left to return, one entry per    *)
(* read_next() call; after the last it raises StopIteration.              *)
DelaySimulatorReader(reader) ==
    [reader |-> reader, stashed_result |-> None, stash_until |-> None, start_time |-> None]

(* __enter__ at clock reading now. *)
delay_enter(self, now) == [self EXCEPT !.start_time = Some(now)]

(* self.reader.read_next() *)
wrapped_read_next(self) ==
    IF self.reader = << >> THEN [self |-> self, outcome |-> ReadStop]
    ELSE [self |-> [self EXCEPT !.reader = Tail(@)], outcome |-> Head(self.reader)]

(* A non-empty dict, the only kind of result that is true in Python. *)
Truthy(outcome) == outcome.kind = "data" /\ DOMAIN outcome.result # {}

(* read_next at clock reading now: ret is the result returned, or None. *)
(* max() raises TypeError when it compares an end time of None, and so  *)
(* does start_time + None: in both cases before anything is stashed.    *)
delay_read_next(self, now) ==
    IF ~IsNone(self.stashed_result)
    THEN IF now >= Val(self.stash_until)
         THEN [self |-> [self EXCEPT !.stashed_result = None, !.stash_until = None],
               exc |-> "", ret |-> self.stashed_result]
         ELSE [self |-> self, exc |-> "", ret |-> None]
    ELSE LET read == wrapped_read_next(self)
             next_result == read.outcome
         IN IF next_result.kind \in {"StopIteration", "Exception"}
            THEN [self |-> read.self, exc |-> next_result.kind, ret |-> None]
            ELSE IF Truthy(next_result)
            THEN LET names == DOMAIN next_result.result
                     end_times == {get_end_time(next_result.result[n]) : n \in names}
                 IN IF None \in end_times
                    THEN [self |-> read.self, exc |-> "TypeError", ret |-> None]
                    ELSE LET latest_result_time ==
                                 CHOOSE m \in {Val(t) : t \in end_times} :
                                     \A t \in end_times : Val(t) <= m
                         IN [self |-> [read.self EXCEPT
                                          !.stash_until = Some(Val(self.start_time) + latest_result_time),
                                          !.stashed_result = Some(next_result.result)],
                             exc |-> "", ret |-> None]
            ELSE [self |-> read.self, exc |-> "", ret |-> None]

MaxStart == 1
MaxDelayReads == 2

(* The clock readings: late enough for every stashed result to come due. *)
Clock == 0..(MaxStart + MaxTime)

(* What a wrapped reader's read_next does: it returns None, an empty   *)
(* dict, or a dict of data, of which any may be empty, or it raises.   *)
DelayOutcomes ==
    {ReadNone, ReadData(<< >>), ReadError}
    \cup {ReadData([n \in {"foo"} |-> NumericEventList(<<<<t, OtherValue>>>>)]) : t \in Times}
    \cup {ReadData([n \in {"foo"} |-> NumericEventList(<< >>)])}
    \cup {ReadData([n \in {"foo", "sig"} |->
                       IF n = "foo" THEN NumericEventList(<<<<1, OtherValue>>>>)
                       ELSE chunk]) :
             chunk \in {SignalChunk(<<7, 8>>, Some(SampleFrequency), Some(1)),
                        SignalChunk(<< >>, Some(SampleFrequency), None)}}

DelayReaders == UNION {[1..n -> DelayOutcomes] : n \in 0..MaxDelayReads}

(* The delaying reader is the other router's reader, entered at start; *)
(* call.time is the latest clock reading.                              *)
InitDelay ==
    /\ \E reader \in DelayReaders : \E start \in 0..MaxStart :
          /\ routers = [r \in Readers |->
                           IF r = OtherReader
                           THEN [ReaderRouter EXCEPT
                                    !.reader = delay_enter(DelaySimulatorReader(reader), start)]
                           ELSE ReaderRouter]
          /\ call = [NoCall EXCEPT !.op = "enter_context", !.router = OtherReader, !.time = start]
    /\ named_buffers = InitialBuffers
    /\ sync_registry = ReaderSyncRegistry(StartReader)
    /\ trial_delimiter = TrialDelimiter(0, 0)
    /\ new_trials = << >>
    /\ trial = NoTrial
    /\ writer = << >>
    /\ pc = "loop"
    /\ reads = [r \in Readers |-> 0]
    /\ route_until_frame = NoFrame
    /\ stack = << >>
    /\ heap = NoHeap

(* One read_next() call at clock reading now; writer keeps the results *)
(* the caller got, in order.                                           *)
DelayReadNext(now) ==
    /\ call.exc = ""
    /\ now >= call.time
    /\ LET res == delay_read_next(routers[OtherReader].reader, now)
       IN /\ routers' = [routers EXCEPT ![OtherReader].reader = res.self]
          /\ writer' = IF IsNone(res.ret) THEN writer ELSE Append(writer, Val(res.ret))
          /\ call' = [NoCall EXCEPT !.op = "read_next", !.router = OtherReader, !.time = now,
                                    !.exc = res.exc, !.returned = res.ret]
    /\ UNCHANGED <<heap, stack, route_until_frame, named_buffers, sync_registry, trial_delimiter,
                   new_trials, trial, pc, reads>>

StashDue(now) ==
    LET self == routers[OtherReader].reader
    IN IF IsNone(self.stashed_result) THEN TRUE ELSE now >= Val(self.stash_until)

(* A call while the stashed result is not yet due. *)
ReadEarly == \E now \in Clock : ~StashDue(now) /\ DelayReadNext(now)

(* A call with nothing stashed, or once the stashed result is due. *)
ReadDue == \E now \in Clock : StashDue(now) /\ DelayReadNext(now)

NextDelay == ReadEarly \/ ReadDue

SpecDelay == InitDelay /\ [][NextDelay]_vars

(* The results of a reader's outcomes that are non-empty, in order. *)
RECURSIVE NonEmptyResults(_)
NonEmptyResults(reader) ==
    IF reader = << >> THEN << >>
    ELSE (IF Truthy(Head(reader)) THEN << Head(reader).result >> ELSE << >>)
         \o NonEmptyResults(Tail(reader))

(* The results delivered, the one stashed, and those still to be read. *)
Accounted(rs, sink) ==
    LET self == rs[OtherReader].reader
    IN sink \o (IF IsNone(self.stashed_result) THEN << >> ELSE << Val(self.stashed_result) >>)
            \o NonEmptyResults(self.reader)

(* C39: the results delivered, then the one stashed, then the non-empty *)
(* results the wrapped reader has left are at every call the same       *)
(* sequence, so each non-empty result is passed on once and in order,   *)
(* none dropped; the wrapped reader is read only while nothing is       *)
(* stashed; and StopIteration is raised only when every earlier result  *)
(* was delivered.                                                       *)
C39_DeliveredOnceInOrder ==
    [][/\ Accounted(routers', writer') = Accounted(routers, writer)
       /\ routers'[OtherReader].reader.reader # routers[OtherReader].reader.reader
             => IsNone(routers[OtherReader].reader.stashed_result)
       /\ call'.exc = "StopIteration" => writer' = Accounted(routers, writer)]_vars

====
